---- MODULE Spec2Model ----
(***************************************************************************)
(* Model of the network command orchestration of wifi-connect              *)
(* (src/src/network.rs, src/src/main.rs, src/src/server.rs,                *)
(* src/src/errors.rs).                                                     *)
(*                                                                         *)
(* Threads: the entry thread (main.rs run), the handler thread             *)
(* (process_network_commands), the exit-signal trap thread, the activity   *)
(* timeout thread and the HTTP server thread.  They communicate over three *)
(* mpsc channels: the command channel (network_tx/network_rx), the         *)
(* response channel (server_tx/server_rx) and the exit channel             *)
(* (exit_tx/exit_rx).  The network-management service, the helper process  *)
(* and the operating system are the environment: every call into them      *)
(* draws its outcome from a small set.                                     *)
(***************************************************************************)
EXTENDS Naturals, Sequences, FiniteSets

VARIABLES
    interface,        \* config.interface: "none" or an interface name
    activity_timeout, \* config.activity_timeout (seconds)
    handler_pc,       \* position of the handler thread
    device,           \* NetworkCommandHandler.device ("none" before find_device)
    access_points,    \* NetworkCommandHandler.access_points (the cache)
    dnsmasq,          \* NetworkCommandHandler.dnsmasq: "none", "running", "killed"
    kill_calls,       \* number of calls of dnsmasq.kill()
    activated,        \* NetworkCommandHandler.activated
    result,           \* run(): the ExitResult of run_loop, NoResult before
    call,             \* the command the handler processes/processed last, with
                      \* the calls it made into the environment
    connections,      \* the service's stored wireless profiles (by SSID)
    network_chan,     \* command channel: commands sent and not yet received
    server_chan,      \* response channel: responses sent and not yet received
    exit_chan,        \* exit channel: every ExitResult posted, in order
    main_pc,          \* entry thread: "blocked" in exit_rx.recv() or "returned"
    main_result,      \* what run() of main.rs returns
    trap_pc,          \* exit-signal thread
    timeout_pc,       \* activity timeout thread
    server_pc,        \* HTTP server thread
    requests,         \* number of HTTP requests served so far
    probe,            \* a function applied on its own: its name, its
                      \* arguments and its value ("-" while the program runs)
    response          \* the HTTP response of the request served last

vars == << interface, activity_timeout, handler_pc, device, access_points,
           dnsmasq, kill_calls, activated, result, call, connections,
           network_chan, server_chan, exit_chan, main_pc, main_result,
           trap_pc, timeout_pc, server_pc, requests, probe, response >>

----------------------------------------------------------------------------
(* Bounds of the model *)

\* HTTP requests served in one run
MaxRequests == 2

\* Empty answers of the device before the one that ends a probed scan
MaxEmptyScans == 11

\* Largest timeout of a probed wait_for_connectivity, besides the program's
MaxTimeout == 3

\* Devices a probed NetworkManager enumerates
MaxDevices == 3

----------------------------------------------------------------------------
(* Program constants *)

\* network.rs:311  let retries_allowed = 10;
retries_allowed == 10

\* network.rs:213  wait_for_connectivity(&self.manager, 20)
connectivity_timeout == 20

----------------------------------------------------------------------------
(* Results and errors (error_chain) *)

\* ExitResult / Result<T>: Ok(value) or Err(chain of error kinds, outermost first)
Ok(v) == [ok |-> TRUE, value |-> v, chain |-> << >>]

Err(kind) == [ok |-> FALSE, value |-> "-", chain |-> << kind >>]

\* .chain_err(|| kind): a new outermost kind, the cause kept below it
chain_err(r, kind) ==
    IF r.ok THEN r ELSE [r EXCEPT !.chain = << kind >> \o r.chain]

\* the error's kind: e.kind()
kind_of(r) == IF r.ok THEN "-" ELSE r.chain[1]

\* run(): no result yet
NoResult == [ok |-> FALSE, value |-> "-", chain |-> << >>]

\* The kinds of the errors { } block of error_chain!
DeclaredKinds ==
    { "PingUnsuccessful", "RecvAccessPointSSIDs", "RecvNetworkCommand",
      "SendNetworkCommandConnect", "SendNetworkCommandClear",
      "SendNetworkCommandListAP", "DeviceByInterface", "NotAWiFiDevice",
      "NoWiFiDevice", "NoAccessPoints", "DeleteAccessPoint", "StartHTTPServer",
      "StartActiveNetworkManager", "StartNetworkManager",
      "NetworkManagerServiceState", "BlockExitSignals", "TrapExitSignals",
      "RecvAccessPoints", "ScanAccessPoints" }

\* The kinds of foreign_links { } and links { }, and error_chain's own Msg
ForeignKinds == { "Io", "Recv", "SendNetworkCommand", "Nix", "NetworkManager", "Msg" }

\* exit_code giving RecvAccessPoints the code of RecvAccessPointSSIDs
exit_code_shared(e) ==
    LET kind == kind_of(e) IN
    CASE kind \in { "RecvAccessPointSSIDs", "RecvAccessPoints" } -> 4
      [] kind = "RecvNetworkCommand" -> 7
      [] kind = "SendNetworkCommandConnect" -> 9
      [] kind = "DeviceByInterface" -> 10
      [] kind = "NotAWiFiDevice" -> 11
      [] kind = "NoWiFiDevice" -> 12
      [] kind = "NoAccessPoints" -> 13
      [] kind = "PingUnsuccessful" -> 14
      [] kind = "SendNetworkCommandClear" -> 15
      [] kind = "DeleteAccessPoint" -> 16
      [] kind = "StartHTTPServer" -> 17
      [] kind = "StartActiveNetworkManager" -> 18
      [] kind = "StartNetworkManager" -> 19
      [] kind = "NetworkManagerServiceState" -> 20
      [] kind = "BlockExitSignals" -> 21
      [] kind = "TrapExitSignals" -> 22
      [] kind = "ScanAccessPoints" -> 25
      [] kind = "SendNetworkCommandListAP" -> 26
      [] OTHER -> 1

\* exit_code: match *e.kind()
exit_code(e) ==
    LET kind == kind_of(e) IN
    CASE kind = "RecvAccessPointSSIDs" -> 4
      [] kind = "RecvNetworkCommand" -> 7
      [] kind = "SendNetworkCommandConnect" -> 9
      [] kind = "DeviceByInterface" -> 10
      [] kind = "NotAWiFiDevice" -> 11
      [] kind = "NoWiFiDevice" -> 12
      [] kind = "NoAccessPoints" -> 13
      [] kind = "PingUnsuccessful" -> 14
      [] kind = "SendNetworkCommandClear" -> 15
      [] kind = "DeleteAccessPoint" -> 16
      [] kind = "StartHTTPServer" -> 17
      [] kind = "StartActiveNetworkManager" -> 18
      [] kind = "StartNetworkManager" -> 19
      [] kind = "NetworkManagerServiceState" -> 20
      [] kind = "BlockExitSignals" -> 21
      [] kind = "TrapExitSignals" -> 22
      [] kind = "RecvAccessPoints" -> 24
      [] kind = "ScanAccessPoints" -> 25
      [] kind = "SendNetworkCommandListAP" -> 26
      [] OTHER -> 1

----------------------------------------------------------------------------
(* The environment's values *)

\* An SSID whose bytes are not valid UTF-8: ssid().as_str() is Err for it
UndecodableSsids == { "\\xff\\xfe" }

\* AccessPoint: SSID and signal strength
apHome == [ssid |-> "home", strength |-> 70]

apHomeWeak == [ssid |-> "home", strength |-> 30]

apCafe == [ssid |-> "cafe", strength |-> 40]

apRaw == [ssid |-> "\\xff\\xfe", strength |-> 55]

\* What one wifi_device.get_access_points() can report
RawScans ==
    { << >>, << apRaw >>, << apHome >>, << apRaw, apCafe >>,
      << apCafe, apRaw, apHome, apHomeWeak >> }

\* Result of one device query: the raw list, or the query's failure
QueryResults ==
    { Ok(raw) : raw \in RawScans } \cup { Err("NetworkManager") }

NoneVisible == [i \in 1..(retries_allowed - 1) |-> Ok(<< >>)]

\* The device's answers to the successive queries of one get_access_points
\* call; a query past the end of the sequence reports no access point
ScanScripts ==
    { << q >> : q \in QueryResults }
    \cup { NoneVisible \o << q >> : q \in { Ok(<< apHome >>), Ok(<< apRaw >>),
                                            Err("NetworkManager") } }

\* Connectivity as the service reports it
Connectivities == { "Full", "Limited", "Portal", "None", "Unknown" }

NoConnectivity == [i \in 1..connectivity_timeout |-> Ok("None")]

\* The service's answers to the successive polls of one wait_for_connectivity
\* call; a poll past the end of the sequence reports "None"
ConnectivityScripts ==
    { << Ok("Full") >>, << Ok("Limited") >>, << Ok("Portal"), Ok("Full") >>,
      << Err("NetworkManager") >>, << >>,
      NoConnectivity \o << Ok("Limited") >>,
      NoConnectivity \o << Err("NetworkManager") >> }

\* Device: interface name and device type
Devices ==
    { << >>,
      << [interface |-> "eth0", device_type |-> "Ethernet"] >>,
      << [interface |-> "eth0", device_type |-> "Ethernet"],
         [interface |-> "wlan0", device_type |-> "WiFi"],
         [interface |-> "wlan1", device_type |-> "WiFi"] >> }

\* NetworkManager as find_device sees it: whether its queries answer, and
\* the devices it enumerates
Managers ==
    { [up |-> TRUE, devices |-> d] : d \in Devices }
    \cup { [up |-> FALSE, devices |-> << >>] }

\* config.interface: None or Some(name)
Interfaces == { "none", "eth0", "wlan1", "wlan9" }

\* config.activity_timeout
ActivityTimeouts == { 0, 60 }

\* SSIDs and passphrases a client submits
RequestedSsids == { "home" }

Passphrases == { "secret" }

----------------------------------------------------------------------------
(* Device & access-point directory *)

\* ap.ssid().as_str().is_ok()
as_str_is_ok(ssid) == ssid \notin UndecodableSsids

\* retain keeping every access point
retain_all(aps) == aps

\* access_points.retain(|ap| ap.ssid().as_str().is_ok())
retain(aps) == SelectSeq(aps, LAMBDA ap : as_str_is_ok(ap.ssid))

\* The answer to the n-th query of a scripted call
query(script, n) == IF n <= Len(script) THEN script[n] ELSE Ok(<< >>)

RECURSIVE get_access_points_loop_inclusive(_, _)
\* get_access_points_loop with the loop condition retries <= retries_allowed
get_access_points_loop_inclusive(script, retries) ==
    IF retries <= retries_allowed
    THEN LET q == query(script, retries + 1) IN
         IF ~q.ok
         THEN [r |-> q, attempts |-> retries + 1]
         ELSE IF retain(q.value) # << >>
              THEN [r |-> Ok(retain(q.value)), attempts |-> retries + 1]
              ELSE get_access_points_loop_inclusive(script, retries + 1)
    ELSE [r |-> Ok(<< >>), attempts |-> retries]

RECURSIVE get_access_points_loop(_, _)
\* The while loop of get_access_points_impl, entered with `retries` attempts
\* made; the result carries the number of device queries made
get_access_points_loop(script, retries) ==
    IF retries < retries_allowed
    THEN LET q == query(script, retries + 1) IN
         IF ~q.ok
         THEN [r |-> q, attempts |-> retries + 1]
         ELSE IF retain(q.value) # << >>
              THEN [r |-> Ok(retain(q.value)), attempts |-> retries + 1]
              ELSE get_access_points_loop(script, retries + 1)
    ELSE [r |-> Ok(<< >>), attempts |-> retries]

get_access_points_impl(script) == get_access_points_loop(script, 0)

\* get_access_points_impl(device).chain_err(|| ErrorKind::NoAccessPoints)
get_access_points(script) ==
    LET g == get_access_points_impl(script) IN
    [g EXCEPT !.r = chain_err(g.r, "NoAccessPoints")]

\* get_access_points_ssids_owned
get_access_points_ssids_owned(aps) == [i \in 1..Len(aps) |-> aps[i].ssid]

\* find_access_point returning the first access point whatever its SSID
find_access_point_first(aps, ssid) == IF Len(aps) > 0 THEN 1 ELSE 0

RECURSIVE find_access_point_from(_, _, _)
find_access_point_from(aps, ssid, i) ==
    IF i > Len(aps) THEN 0
    ELSE IF as_str_is_ok(aps[i].ssid) /\ aps[i].ssid = ssid THEN i
         ELSE find_access_point_from(aps, ssid, i + 1)

\* find_access_point: the index of the first access point with that SSID,
\* 0 for None
find_access_point(aps, ssid) == find_access_point_from(aps, ssid, 1)

\* position_wifi giving the last WiFi device
position_wifi_last(devices) ==
    LET hits == { i \in 1..Len(devices) : devices[i].device_type = "WiFi" } IN
    IF hits = {} THEN 0 ELSE CHOOSE i \in hits : \A j \in hits : i >= j

\* devices.iter().position(|d| *d.device_type() == DeviceType::WiFi), 0 for None
position_wifi(devices) ==
    LET hits == { i \in 1..Len(devices) : devices[i].device_type = "WiFi" } IN
    IF hits = {} THEN 0 ELSE CHOOSE i \in hits : \A j \in hits : i <= j

\* manager.get_device_by_interface(interface)
get_device_by_interface(manager, name) ==
    LET hits == { i \in 1..Len(manager.devices) :
                    manager.devices[i].interface = name } IN
    IF ~manager.up \/ hits = {} THEN Err("NetworkManager")
    ELSE Ok(manager.devices[CHOOSE i \in hits : TRUE])

\* find_device
find_device(manager, iface) ==
    IF iface # "none"
    THEN LET d == chain_err(get_device_by_interface(manager, iface),
                            "DeviceByInterface") IN
         IF ~d.ok THEN d
         ELSE IF d.value.device_type = "WiFi" THEN d
              ELSE Err("NotAWiFiDevice")
    ELSE IF ~manager.up THEN Err("NetworkManager")
         ELSE LET index == position_wifi(manager.devices) IN
              IF index # 0 THEN Ok(manager.devices[index])
              ELSE Err("NoWiFiDevice")

----------------------------------------------------------------------------
(* Connection manager *)

RECURSIVE wait_for_connectivity_loop_late(_, _, _)
\* wait_for_connectivity_loop giving up when total_time > timeout
wait_for_connectivity_loop_late(script, timeout, total_time) ==
    LET c == IF total_time + 1 <= Len(script)
             THEN script[total_time + 1] ELSE Ok("None") IN
    IF ~c.ok THEN [r |-> c, polls |-> total_time + 1]
    ELSE IF c.value = "Full" \/ c.value = "Limited"
         THEN [r |-> Ok(TRUE), polls |-> total_time + 1]
         ELSE IF total_time > timeout
              THEN [r |-> Ok(FALSE), polls |-> total_time + 1]
              ELSE wait_for_connectivity_loop_late(script, timeout, total_time + 1)

RECURSIVE wait_for_connectivity_loop(_, _, _)
\* The loop of wait_for_connectivity, entered with total_time seconds waited;
\* the result carries the number of polls made
wait_for_connectivity_loop(script, timeout, total_time) ==
    LET c == IF total_time + 1 <= Len(script)
             THEN script[total_time + 1] ELSE Ok("None") IN
    IF ~c.ok THEN [r |-> c, polls |-> total_time + 1]
    ELSE IF c.value = "Full" \/ c.value = "Limited"
         THEN [r |-> Ok(TRUE), polls |-> total_time + 1]
         ELSE IF total_time >= timeout
              THEN [r |-> Ok(FALSE), polls |-> total_time + 1]
              ELSE wait_for_connectivity_loop(script, timeout, total_time + 1)

wait_for_connectivity(script, timeout) ==
    wait_for_connectivity_loop(script, timeout, 0)

\* Outcomes of wifi_device.connect(access_point, passphrase): the resulting
\* connection state, or the call's failure
ConnectOutcomes ==
    { Ok("Activated"), Ok("Activating"), Ok("Deactivated"),
      Err("NetworkManager") }

\* delete_connection_if_exists: the stored profiles afterwards; a failed
\* get_connections or delete leaves them as they are
delete_connection_if_exists(stored, ssid, deleted) ==
    IF deleted THEN stored \ { ssid } ELSE stored

----------------------------------------------------------------------------
(* Channels *)

\* NetworkCommand
Command(type, ssid, passphrase) ==
    [type |-> type, ssid |-> ssid, passphrase |-> passphrase]

\* NetworkCommandResponse::AccessPointsSsids
AccessPointsSsids(ssids) == [type |-> "AccessPointsSsids", ssids |-> ssids]

\* The handler's record of the command it is processing: the calls made into
\* the environment so far and the value returned (NoResult while running)
NewCall(type, ssid) ==
    [cmd |-> type,              \* the command's variant, "none" for none
     ssid |-> ssid,             \* the SSID it names
     scans |-> 0,               \* calls of get_access_points
     cache_from |-> 0,          \* which of them filled the cache (0: none)
     visible |-> "-",           \* find_access_point found the SSID: "yes"/"no"
     auth_calls |-> 0,          \* calls of wifi_device.connect
     state |-> "-",             \* the connection state it returned
     created_deleted |-> FALSE, \* connection.delete() of the new connection
     wait |-> "-",              \* wait_for_connectivity: "true"/"false"/"err"
     ret |-> NoResult]          \* the value returned, NoResult while running

\* network_rx exists: created in new(), dropped when new() fails or when the
\* handler is dropped at the end of process_network_commands
network_rx_alive == handler_pc \notin { "unspawned", "new", "exit", "done" }

\* server_tx exists: created in new(), dropped with the handler
server_tx_alive == handler_pc \notin { "unspawned", "exit", "done" }

\* server_rx exists: moved into the HTTP server, dropped when it fails to start
server_rx_alive == server_pc # "dead"

\* Some clone of network_tx exists: the one of new(), of the trap thread, of
\* the HTTP server, of the timeout thread
network_tx_alive ==
    \/ handler_pc \in { "new", "find_device", "get_access_points",
                        "start_dnsmasq", "spawn" }
    \/ trap_pc = "trapping"
    \/ server_pc \in { "starting", "idle", "awaiting", "awaiting_check" }
    \/ timeout_pc = "sleeping"

\* Some clone of exit_tx exists
exit_tx_alive ==
    \/ handler_pc \notin { "unspawned", "done" }
    \/ trap_pc = "trapping"
    \/ server_pc \in { "starting", "idle", "awaiting", "awaiting_check" }

\* network_tx_send putting the command at the front of the queue
network_tx_send_front(command) ==
    IF network_rx_alive THEN << command >> \o network_chan ELSE network_chan

\* network_tx.send(command): queued when the receiver exists, else Err
network_tx_send(command) ==
    IF network_rx_alive THEN Append(network_chan, command) ELSE network_chan

\* exit(exit_tx, e): post Err(e) to the exit channel
exit(who, e) == Append(exit_chan, [from |-> who, result |-> e])

----------------------------------------------------------------------------
(* Entry thread: main.rs *)

\* start_network_manager_service and delete_access_point_profiles, by the
\* outcomes of the service calls
init_networking(state, started, deleted) ==
    IF ~state.ok THEN chain_err(state, "NetworkManagerServiceState")
    ELSE IF state.value # "Active" /\ ~started.ok
         THEN chain_err(started, "StartNetworkManager")
    ELSE IF state.value # "Active" /\ started.value # "Active"
         THEN Err("StartActiveNetworkManager")
    ELSE chain_err(deleted, "DeleteAccessPoint")

ServiceStates == { Ok("Active"), Ok("Inactive"), Err("NetworkManager") }

DeleteResults == { Ok("()"), Err("NetworkManager") }

\* run(): block_exit_signals()?, init_networking()?, spawn the handler thread
MainStart ==
    /\ main_pc = "start"
    /\ \E blocked \in { Ok("()"), Err("BlockExitSignals") },
          state \in ServiceStates, started \in ServiceStates,
          deleted \in DeleteResults :
         LET r == IF ~blocked.ok THEN blocked
                  ELSE init_networking(state, started, deleted) IN
         IF r.ok
         THEN /\ main_pc' = "blocked"
              /\ handler_pc' = "new"
              /\ UNCHANGED main_result
         ELSE /\ main_pc' = "returned"
              /\ main_result' = r
              /\ UNCHANGED handler_pc
    /\ UNCHANGED << interface, activity_timeout, device, access_points, dnsmasq,
                    kill_calls, activated, result, call, connections,
                    network_chan, server_chan, exit_chan, trap_pc, timeout_pc,
                    server_pc, requests >>
    /\ UNCHANGED << probe, response >>

\* MainRecv receiving the ExitResult posted last instead of the first
MainRecvLast ==
    /\ main_pc = "blocked"
    /\ exit_chan # << >> \/ ~exit_tx_alive
    /\ main_pc' = "returned"
    /\ main_result' = IF exit_chan # << >>
                      THEN exit_chan[Len(exit_chan)].result
                      ELSE Err("Recv")
    /\ UNCHANGED << interface, activity_timeout, handler_pc, device,
                    access_points, dnsmasq, kill_calls, activated, result, call,
                    connections, network_chan, server_chan, exit_chan, trap_pc,
                    timeout_pc, server_pc, requests >>
    /\ UNCHANGED << probe, response >>

\* run(): exit_rx.recv() returns the first ExitResult posted, or fails when
\* every sender is gone and nothing was posted
MainRecv ==
    /\ main_pc = "blocked"
    /\ exit_chan # << >> \/ ~exit_tx_alive
    /\ main_pc' = "returned"
    /\ main_result' = IF exit_chan # << >> THEN Head(exit_chan).result
                      ELSE Err("Recv")
    /\ UNCHANGED << interface, activity_timeout, handler_pc, device,
                    access_points, dnsmasq, kill_calls, activated, result, call,
                    connections, network_chan, server_chan, exit_chan, trap_pc,
                    timeout_pc, server_pc, requests >>
    /\ UNCHANGED << probe, response >>

----------------------------------------------------------------------------
(* Exit coordinator and activity timeout monitor *)

\* TrapFail going on to send Exit after it posted the error
TrapFailSendsExit ==
    /\ trap_pc = "trapping"
    /\ trap_pc' = "done"
    /\ exit_chan' = exit("trap", Err("TrapExitSignals"))
    /\ network_chan' = network_tx_send(Command("Exit", "-", "-"))
    /\ UNCHANGED << interface, activity_timeout, handler_pc, device,
                    access_points, dnsmasq, kill_calls, activated, result, call,
                    connections, server_chan, main_pc,
                    main_result, timeout_pc, server_pc, requests >>
    /\ UNCHANGED << probe, response >>

\* trap_exit_signals() fails: exit(&exit_tx_trap, e)
TrapFail ==
    /\ trap_pc = "trapping"
    /\ trap_pc' = "done"
    /\ exit_chan' = exit("trap", Err("TrapExitSignals"))
    /\ UNCHANGED << interface, activity_timeout, handler_pc, device,
                    access_points, dnsmasq, kill_calls, activated, result, call,
                    connections, network_chan, server_chan, main_pc,
                    main_result, timeout_pc, server_pc, requests >>
    /\ UNCHANGED << probe, response >>

\* a termination signal arrives: network_tx.send(NetworkCommand::Exit)
TrapSignal ==
    /\ trap_pc = "trapping"
    /\ trap_pc' = "done"
    /\ network_chan' = network_tx_send(Command("Exit", "-", "-"))
    /\ UNCHANGED << interface, activity_timeout, handler_pc, device,
                    access_points, dnsmasq, kill_calls, activated, result, call,
                    connections, server_chan, exit_chan, main_pc, main_result,
                    timeout_pc, server_pc, requests >>
    /\ UNCHANGED << probe, response >>

\* the sleep ends: network_tx.send(NetworkCommand::Timeout)
TimeoutFire ==
    /\ timeout_pc = "sleeping"
    /\ timeout_pc' = "done"
    /\ network_chan' = network_tx_send(Command("Timeout", "-", "-"))
    /\ UNCHANGED << interface, activity_timeout, handler_pc, device,
                    access_points, dnsmasq, kill_calls, activated, result, call,
                    connections, server_chan, exit_chan, main_pc, main_result,
                    trap_pc, server_pc, requests >>
    /\ UNCHANGED << probe, response >>

----------------------------------------------------------------------------
(* Handler thread: construction (NetworkCommandHandler::new) *)

\* new(): create the command channel, spawn the exit-signal thread
HandlerNew ==
    /\ handler_pc = "new"
    /\ handler_pc' = "find_device"
    /\ trap_pc' = "trapping"
    /\ UNCHANGED << interface, activity_timeout, device, access_points, dnsmasq,
                    kill_calls, activated, result, call, connections,
                    network_chan, server_chan, exit_chan, main_pc, main_result,
                    timeout_pc, server_pc, requests >>
    /\ UNCHANGED << probe, response >>

\* new(): let device = find_device(&manager, &config.interface)?
HandlerFindDevice ==
    /\ handler_pc = "find_device"
    /\ \E manager \in Managers :
         LET d == find_device(manager, interface) IN
         IF d.ok
         THEN /\ device' = d.value.interface
              /\ handler_pc' = "get_access_points"
              /\ UNCHANGED result
         ELSE /\ result' = d
              /\ handler_pc' = "exit"
              /\ UNCHANGED device
    /\ UNCHANGED << interface, activity_timeout, access_points, dnsmasq,
                    kill_calls, activated, call, connections, network_chan,
                    server_chan, exit_chan, main_pc, main_result, trap_pc,
                    timeout_pc, server_pc, requests >>
    /\ UNCHANGED << probe, response >>

\* new(): let access_points = get_access_points(&device)?
HandlerInitialScan ==
    /\ handler_pc = "get_access_points"
    /\ \E script \in ScanScripts :
         LET g == get_access_points(script) IN
         IF g.r.ok
         THEN /\ access_points' = g.r.value
              /\ handler_pc' = "start_dnsmasq"
              /\ UNCHANGED result
         ELSE /\ result' = g.r
              /\ handler_pc' = "exit"
              /\ UNCHANGED access_points
    /\ UNCHANGED << interface, activity_timeout, device, dnsmasq, kill_calls,
                    activated, call, connections, network_chan, server_chan,
                    exit_chan, main_pc, main_result, trap_pc, timeout_pc,
                    server_pc, requests >>
    /\ UNCHANGED << probe, response >>

\* new(): let dnsmasq = start_dnsmasq(config, &device)?
HandlerStartDnsmasq ==
    /\ handler_pc = "start_dnsmasq"
    /\ \E spawned \in { Ok("()"), Err("Io") } :
         IF spawned.ok
         THEN /\ dnsmasq' = "running"
              /\ handler_pc' = "spawn"
              /\ UNCHANGED result
         ELSE /\ result' = spawned
              /\ handler_pc' = "exit"
              /\ UNCHANGED dnsmasq
    /\ UNCHANGED << interface, activity_timeout, device, access_points,
                    kill_calls, activated, call, connections, network_chan,
                    server_chan, exit_chan, main_pc, main_result, trap_pc,
                    timeout_pc, server_pc, requests >>
    /\ UNCHANGED << probe, response >>

\* HandlerSpawn starting the timeout thread whatever activity_timeout is
HandlerSpawnAlwaysTimes ==
    /\ handler_pc = "spawn"
    /\ server_pc' = "starting"
    /\ timeout_pc' = "sleeping"
    /\ activated' = FALSE
    /\ handler_pc' = "recv"
    /\ UNCHANGED << interface, activity_timeout, device, access_points, dnsmasq,
                    kill_calls, result, call, connections, network_chan,
                    server_chan, exit_chan, main_pc, main_result, trap_pc,
                    requests >>
    /\ UNCHANGED << probe, response >>

\* new(): create the response channel, spawn_server, spawn_activity_timeout,
\* activated = false; then run() enters run_loop
HandlerSpawn ==
    /\ handler_pc = "spawn"
    /\ server_pc' = "starting"
    /\ timeout_pc' = IF activity_timeout = 0 THEN "unspawned" ELSE "sleeping"
    /\ activated' = FALSE
    /\ handler_pc' = "recv"
    /\ UNCHANGED << interface, activity_timeout, device, access_points, dnsmasq,
                    kill_calls, result, call, connections, network_chan,
                    server_chan, exit_chan, main_pc, main_result, trap_pc,
                    requests >>
    /\ UNCHANGED << probe, response >>

\* HandlerExit returning without a post to the exit channel
HandlerExitSilent ==
    /\ handler_pc = "exit"
    /\ handler_pc' = "done"
    /\ UNCHANGED << interface, activity_timeout, device, access_points, dnsmasq,
                    kill_calls, activated, result, call, connections,
                    network_chan, server_chan, exit_chan, main_pc, main_result,
                    trap_pc, timeout_pc, server_pc, requests >>
    /\ UNCHANGED << probe, response >>

\* process_network_commands: new() failed, exit(exit_tx, e); return
HandlerExit ==
    /\ handler_pc = "exit"
    /\ exit_chan' = exit("handler", result)
    /\ handler_pc' = "done"
    /\ UNCHANGED << interface, activity_timeout, device, access_points, dnsmasq,
                    kill_calls, activated, result, call, connections,
                    network_chan, server_chan, main_pc, main_result, trap_pc,
                    timeout_pc, server_pc, requests >>
    /\ UNCHANGED << probe, response >>

----------------------------------------------------------------------------
(* Handler thread: run_loop *)

\* What the handler leaves alone while it processes a command
HandlerFrame ==
    UNCHANGED << interface, activity_timeout, device, dnsmasq, kill_calls,
                 exit_chan, main_pc, main_result, trap_pc, timeout_pc,
                 server_pc, requests, probe, response >>

\* ReceiveFail ending the loop as a normal shutdown
ReceiveFailGraceful ==
    /\ handler_pc = "recv"
    /\ network_chan = << >>
    /\ ~network_tx_alive
    /\ result' = Ok("()")
    /\ call' = [NewCall("none", "-") EXCEPT !.ret = result']
    /\ handler_pc' = "stop_kill"
    /\ UNCHANGED << access_points, activated, connections, network_chan,
                    server_chan >>
    /\ HandlerFrame

\* receive_network_command: recv() fails when every sender is gone
ReceiveFail ==
    /\ handler_pc = "recv"
    /\ network_chan = << >>
    /\ ~network_tx_alive
    /\ result' = chain_err(Err("RecvError"), "RecvNetworkCommand")
    /\ call' = [NewCall("none", "-") EXCEPT !.ret = result']
    /\ handler_pc' = "stop_kill"
    /\ UNCHANGED << access_points, activated, connections, network_chan,
                    server_chan >>
    /\ HandlerFrame

\* Activate refreshing the cache by a scan before it answers
ActivateRescans ==
    /\ handler_pc = "recv"
    /\ network_chan # << >>
    /\ Head(network_chan).type = "Activate"
    /\ network_chan' = Tail(network_chan)
    /\ activated' = TRUE
    /\ \E script \in ScanScripts :
         LET g == get_access_points(script) IN
         access_points' = IF g.r.ok THEN g.r.value ELSE access_points
    /\ IF server_rx_alive
       THEN /\ server_chan' = Append(server_chan,
                  AccessPointsSsids(get_access_points_ssids_owned(access_points')))
            /\ call' = [NewCall("Activate", "-") EXCEPT !.ret = Ok("()")]
            /\ UNCHANGED << handler_pc, result >>
       ELSE /\ result' = chain_err(Err("SendError"), "SendAccessPointSSIDs")
            /\ call' = [NewCall("Activate", "-") EXCEPT !.ret = result']
            /\ handler_pc' = "stop_kill"
            /\ UNCHANGED server_chan
    /\ UNCHANGED connections
    /\ HandlerFrame

\* NetworkCommand::Activate => self.activate()?
Activate ==
    /\ handler_pc = "recv"
    /\ network_chan # << >>
    /\ Head(network_chan).type = "Activate"
    /\ network_chan' = Tail(network_chan)
    /\ activated' = TRUE
    /\ IF server_rx_alive
       THEN /\ server_chan' = Append(server_chan,
                  AccessPointsSsids(get_access_points_ssids_owned(access_points)))
            /\ call' = [NewCall("Activate", "-") EXCEPT !.ret = Ok("()")]
            /\ UNCHANGED << handler_pc, result >>
       ELSE /\ result' = chain_err(Err("SendError"), "SendAccessPointSSIDs")
            /\ call' = [NewCall("Activate", "-") EXCEPT !.ret = result']
            /\ handler_pc' = "stop_kill"
            /\ UNCHANGED server_chan
    /\ UNCHANGED << access_points, connections >>
    /\ HandlerFrame

\* Timeout ending the loop whatever `activated` is
TimeoutAlways ==
    /\ handler_pc = "recv"
    /\ network_chan # << >>
    /\ Head(network_chan).type = "Timeout"
    /\ network_chan' = Tail(network_chan)
    /\ call' = [NewCall("Timeout", "-") EXCEPT !.ret = Ok("()")]
    /\ result' = Ok("()")
    /\ handler_pc' = "stop_kill"
    /\ UNCHANGED << access_points, activated, connections, server_chan >>
    /\ HandlerFrame

\* NetworkCommand::Timeout => if !self.activated { return Ok(()) }
Timeout ==
    /\ handler_pc = "recv"
    /\ network_chan # << >>
    /\ Head(network_chan).type = "Timeout"
    /\ network_chan' = Tail(network_chan)
    /\ call' = [NewCall("Timeout", "-") EXCEPT !.ret = Ok("()")]
    /\ IF ~activated
       THEN /\ result' = Ok("()")
            /\ handler_pc' = "stop_kill"
       ELSE UNCHANGED << handler_pc, result >>
    /\ UNCHANGED << access_points, activated, connections, server_chan >>
    /\ HandlerFrame

\* Exit returning past the teardown of stop
ExitWithoutStop ==
    /\ handler_pc = "recv"
    /\ network_chan # << >>
    /\ Head(network_chan).type = "Exit"
    /\ network_chan' = Tail(network_chan)
    /\ call' = [NewCall("Exit", "-") EXCEPT !.ret = Ok("()")]
    /\ result' = Ok("()")
    /\ handler_pc' = "stop_send"
    /\ UNCHANGED << access_points, activated, connections, server_chan >>
    /\ HandlerFrame

\* NetworkCommand::Exit => return Ok(())
Exit ==
    /\ handler_pc = "recv"
    /\ network_chan # << >>
    /\ Head(network_chan).type = "Exit"
    /\ network_chan' = Tail(network_chan)
    /\ call' = [NewCall("Exit", "-") EXCEPT !.ret = Ok("()")]
    /\ result' = Ok("()")
    /\ handler_pc' = "stop_kill"
    /\ UNCHANGED << access_points, activated, connections, server_chan >>
    /\ HandlerFrame

\* Disconnect clearing `activated`
DisconnectDeactivates ==
    /\ handler_pc = "recv"
    /\ network_chan # << >>
    /\ Head(network_chan).type = "Disconnect"
    /\ network_chan' = Tail(network_chan)
    /\ activated' = FALSE
    /\ \E disconnected \in { Ok("()"), Err("NetworkManager") } :
         IF disconnected.ok
         THEN /\ call' = [NewCall("Disconnect", Head(network_chan).ssid)
                            EXCEPT !.ret = Ok("false")]
              /\ UNCHANGED << handler_pc, result >>
         ELSE /\ call' = [NewCall("Disconnect", Head(network_chan).ssid)
                            EXCEPT !.ret = disconnected]
              /\ result' = disconnected
              /\ handler_pc' = "stop_kill"
    /\ UNCHANGED << access_points, connections, server_chan >>
    /\ HandlerFrame

\* NetworkCommand::Disconnect => self.disconnect(&ssid)?
Disconnect ==
    /\ handler_pc = "recv"
    /\ network_chan # << >>
    /\ Head(network_chan).type = "Disconnect"
    /\ network_chan' = Tail(network_chan)
    /\ \E disconnected \in { Ok("()"), Err("NetworkManager") } :
         IF disconnected.ok
         THEN /\ call' = [NewCall("Disconnect", Head(network_chan).ssid)
                            EXCEPT !.ret = Ok("false")]
              /\ UNCHANGED << handler_pc, result >>
         ELSE /\ call' = [NewCall("Disconnect", Head(network_chan).ssid)
                            EXCEPT !.ret = disconnected]
              /\ result' = disconnected
              /\ handler_pc' = "stop_kill"
    /\ UNCHANGED << access_points, activated, connections, server_chan >>
    /\ HandlerFrame

----------------------------------------------------------------------------
(* Handler thread: connect *)

\* NetworkCommand::Connect => self.connect(&ssid, &passphrase)?
\* connect: delete_connection_if_exists; the first get_access_points;
\* find_access_point
ConnectBegin ==
    /\ handler_pc = "recv"
    /\ network_chan # << >>
    /\ Head(network_chan).type = "Connect"
    /\ network_chan' = Tail(network_chan)
    /\ \E deleted \in BOOLEAN, script \in ScanScripts :
         LET ssid == Head(network_chan).ssid
             g == get_access_points(script)
             c == [NewCall("Connect", ssid) EXCEPT !.scans = 1]
         IN
         /\ connections' = delete_connection_if_exists(connections, ssid, deleted)
         /\ IF ~g.r.ok
            THEN /\ call' = [c EXCEPT !.ret = g.r]
                 /\ result' = g.r
                 /\ handler_pc' = "stop_kill"
                 /\ UNCHANGED access_points
            ELSE /\ access_points' = g.r.value
                 /\ IF find_access_point(g.r.value, ssid) # 0
                    THEN /\ call' = [c EXCEPT !.cache_from = 1,
                                              !.visible = "yes"]
                         /\ handler_pc' = "connect_auth"
                    ELSE /\ call' = [c EXCEPT !.cache_from = 1,
                                              !.visible = "no"]
                         /\ handler_pc' = "connect_rescan"
                 /\ UNCHANGED result
    /\ UNCHANGED << activated, server_chan >>
    /\ HandlerFrame

\* ConnectAuth leaving a connection that is not Activated in place
ConnectAuthKeepsConnection ==
    /\ handler_pc = "connect_auth"
    /\ \E outcome \in ConnectOutcomes :
         LET c == [call EXCEPT !.auth_calls = @ + 1, !.state = outcome.value] IN
         IF outcome.ok
         THEN /\ connections' = connections \cup { call.ssid }
              /\ call' = c
              /\ handler_pc' = IF outcome.value = "Activated"
                               THEN "connect_wait" ELSE "connect_rescan"
         ELSE /\ call' = c
              /\ handler_pc' = "connect_rescan"
              /\ UNCHANGED connections
    /\ UNCHANGED << access_points, activated, result, network_chan, server_chan >>
    /\ HandlerFrame

\* ConnectAuth propagating a failed wifi_device.connect with `?`
ConnectAuthPropagates ==
    /\ handler_pc = "connect_auth"
    /\ \E outcome \in ConnectOutcomes, deleted \in BOOLEAN :
         LET c == [call EXCEPT !.auth_calls = @ + 1, !.state = outcome.value] IN
         IF outcome.ok /\ outcome.value = "Activated"
         THEN /\ connections' = connections \cup { call.ssid }
              /\ call' = c
              /\ handler_pc' = "connect_wait"
              /\ UNCHANGED result
         ELSE IF outcome.ok
         THEN /\ connections' = IF deleted THEN connections \ { call.ssid }
                                ELSE connections \cup { call.ssid }
              /\ call' = [c EXCEPT !.created_deleted = TRUE]
              /\ handler_pc' = "connect_rescan"
              /\ UNCHANGED result
         ELSE /\ call' = [c EXCEPT !.ret = outcome]
              /\ result' = outcome
              /\ handler_pc' = "stop_kill"
              /\ UNCHANGED connections
    /\ UNCHANGED << access_points, activated, network_chan, server_chan >>
    /\ HandlerFrame

\* connect: wifi_device.connect(access_point, passphrase); a connection that
\* is not Activated is deleted, a failure of the deletion is logged
ConnectAuth ==
    /\ handler_pc = "connect_auth"
    /\ \E outcome \in ConnectOutcomes, deleted \in BOOLEAN :
         LET c == [call EXCEPT !.auth_calls = @ + 1, !.state = outcome.value] IN
         IF outcome.ok /\ outcome.value = "Activated"
         THEN /\ connections' = connections \cup { call.ssid }
              /\ call' = c
              /\ handler_pc' = "connect_wait"
         ELSE IF outcome.ok
         THEN /\ connections' = IF deleted THEN connections \ { call.ssid }
                                ELSE connections \cup { call.ssid }
              /\ call' = [c EXCEPT !.created_deleted = TRUE]
              /\ handler_pc' = "connect_rescan"
         ELSE /\ call' = c
              /\ handler_pc' = "connect_rescan"
              /\ UNCHANGED connections
    /\ UNCHANGED << access_points, activated, result, network_chan, server_chan >>
    /\ HandlerFrame

\* ConnectWait returning false when the connectivity query failed
ConnectWaitFailsOnError ==
    /\ handler_pc = "connect_wait"
    /\ \E script \in ConnectivityScripts :
         LET w == wait_for_connectivity(script, connectivity_timeout) IN
         call' = [call EXCEPT
                    !.wait = IF ~w.r.ok THEN "err"
                             ELSE IF w.r.value THEN "true" ELSE "false",
                    !.ret = IF w.r.ok THEN Ok("true") ELSE Ok("false")]
    /\ handler_pc' = "recv"
    /\ UNCHANGED << access_points, activated, result, connections,
                    network_chan, server_chan >>
    /\ HandlerFrame

\* ConnectWait propagating a failed connectivity query with `?`
ConnectWaitPropagates ==
    /\ handler_pc = "connect_wait"
    /\ \E script \in ConnectivityScripts :
         LET w == wait_for_connectivity(script, connectivity_timeout) IN
         IF w.r.ok
         THEN /\ call' = [call EXCEPT
                            !.wait = IF w.r.value THEN "true" ELSE "false",
                            !.ret = Ok("true")]
              /\ handler_pc' = "recv"
              /\ UNCHANGED result
         ELSE /\ call' = [call EXCEPT !.wait = "err", !.ret = w.r]
              /\ result' = w.r
              /\ handler_pc' = "stop_kill"
    /\ UNCHANGED << access_points, activated, connections, network_chan,
                    server_chan >>
    /\ HandlerFrame

\* connect: wait_for_connectivity(&self.manager, 20), its outcome logged;
\* return Ok(true)
ConnectWait ==
    /\ handler_pc = "connect_wait"
    /\ \E script \in ConnectivityScripts :
         LET w == wait_for_connectivity(script, connectivity_timeout) IN
         call' = [call EXCEPT
                    !.wait = IF ~w.r.ok THEN "err"
                             ELSE IF w.r.value THEN "true" ELSE "false",
                    !.ret = Ok("true")]
    /\ handler_pc' = "recv"
    /\ UNCHANGED << access_points, activated, result, connections,
                    network_chan, server_chan >>
    /\ HandlerFrame

\* ConnectRescan returning Ok(false) without the final get_access_points
ConnectRescanSkipped ==
    /\ handler_pc = "connect_rescan"
    /\ call' = [call EXCEPT !.ret = Ok("false")]
    /\ handler_pc' = "recv"
    /\ UNCHANGED << access_points, activated, result, connections,
                    network_chan, server_chan >>
    /\ HandlerFrame

\* connect: self.access_points = get_access_points(&self.device)?; Ok(false)
ConnectRescan ==
    /\ handler_pc = "connect_rescan"
    /\ \E script \in ScanScripts :
         LET g == get_access_points(script)
             c == [call EXCEPT !.scans = @ + 1]
         IN
         IF ~g.r.ok
         THEN /\ call' = [c EXCEPT !.ret = g.r]
              /\ result' = g.r
              /\ handler_pc' = "stop_kill"
              /\ UNCHANGED access_points
         ELSE /\ call' = [c EXCEPT !.cache_from = c.scans,
                                   !.ret = Ok("false")]
              /\ access_points' = g.r.value
              /\ handler_pc' = "recv"
              /\ UNCHANGED result
    /\ UNCHANGED << activated, connections, network_chan, server_chan >>
    /\ HandlerFrame

----------------------------------------------------------------------------
(* Handler thread: stop *)

\* stop: let _ = self.dnsmasq.kill()
StopKill ==
    /\ handler_pc = "stop_kill"
    /\ kill_calls' = kill_calls + 1
    /\ \E killed \in BOOLEAN :
         dnsmasq' = IF killed THEN "killed" ELSE dnsmasq
    /\ handler_pc' = "stop_send"
    /\ UNCHANGED << interface, activity_timeout, device, access_points,
                    activated, result, call, connections, network_chan,
                    server_chan, exit_chan, main_pc, main_result, trap_pc,
                    timeout_pc, server_pc, requests >>
    /\ UNCHANGED << probe, response >>

\* StopSend posting Ok(()) whatever run_loop returned
StopSendOk ==
    /\ handler_pc = "stop_send"
    /\ exit_chan' = Append(exit_chan, [from |-> "handler", result |-> Ok("()")])
    /\ handler_pc' = "done"
    /\ UNCHANGED << interface, activity_timeout, device, access_points, dnsmasq,
                    kill_calls, activated, result, call, connections,
                    network_chan, server_chan, main_pc, main_result, trap_pc,
                    timeout_pc, server_pc, requests >>
    /\ UNCHANGED << probe, response >>

\* stop: let _ = exit_tx.send(result); then the handler is dropped
StopSend ==
    /\ handler_pc = "stop_send"
    /\ exit_chan' = Append(exit_chan, [from |-> "handler", result |-> result])
    /\ handler_pc' = "done"
    /\ UNCHANGED << interface, activity_timeout, device, access_points, dnsmasq,
                    kill_calls, activated, result, call, connections,
                    network_chan, server_chan, main_pc, main_result, trap_pc,
                    timeout_pc, server_pc, requests >>
    /\ UNCHANGED << probe, response >>

----------------------------------------------------------------------------
(* HTTP server thread: server.rs *)

\* What a request handler leaves alone
ServerFrame ==
    UNCHANGED << interface, activity_timeout, handler_pc, device,
                 access_points, dnsmasq, kill_calls, activated, result, call,
                 connections, main_pc, main_result, trap_pc, timeout_pc, probe >>

\* An HTTP response: Ok(Response::with(status)) or Err(IronError::new(
\* StringError(error), status))
HttpResponse(status, error) == [status |-> status, error |-> error]

\* No request was served yet
NoResponse == HttpResponse("-", "-")

\* Ok(Response::with(status::Ok))
Ok200 == HttpResponse("200", "-")

\* exit_with_error: Err(IronError::new(StringError(description of e_kind),
\* status::InternalServerError))
InternalServerError(e_kind) == HttpResponse("500", e_kind)

\* get_param: the parameter is absent from the request or has another type
Absent == "absent"

\* exit_with_error: exit(&state.exit_tx, e chained with e_kind)
exit_with_error(e, e_kind) == exit("server", chain_err(e, e_kind))

\* start_server: Iron::new(chain).http(&address) succeeds
HttpStart ==
    /\ server_pc = "starting"
    /\ server_pc' = "idle"
    /\ UNCHANGED << network_chan, server_chan, exit_chan, requests, response >>
    /\ ServerFrame

\* start_server: Iron::new(chain).http(&address) fails; the request state
\* (server_rx, network_tx) is dropped
HttpStartFail ==
    /\ server_pc = "starting"
    /\ server_pc' = "dead"
    /\ exit_chan' = exit("server", Err("StartHTTPServer"))
    /\ UNCHANGED << network_chan, server_chan, requests, response >>
    /\ ServerFrame

\* ssid: send the command that lists the access points, then await the
\* response.  (server.rs names command variants the enum of network.rs does
\* not have; the command sent is the one run_loop answers with a response.)
HttpSsid ==
    /\ server_pc = "idle"
    /\ requests < MaxRequests
    /\ requests' = requests + 1
    /\ network_chan' = network_tx_send(Command("Activate", "-", "-"))
    /\ IF network_rx_alive
       THEN /\ server_pc' = "awaiting"
            /\ UNCHANGED << exit_chan, response >>
       ELSE /\ exit_chan' = exit_with_error(Err("SendError"),
                                            "SendNetworkCommandListAP")
            /\ response' = InternalServerError("SendNetworkCommandListAP")
            /\ UNCHANGED server_pc
    /\ UNCHANGED server_chan
    /\ ServerFrame

\* ssid: request_state.server_rx.recv()
HttpSsidRecv ==
    /\ server_pc = "awaiting"
    /\ server_chan # << >> \/ ~server_tx_alive
    /\ server_pc' = "idle"
    /\ IF server_chan # << >>
       THEN /\ server_chan' = Tail(server_chan)
            /\ response' = Ok200
            /\ UNCHANGED exit_chan
       ELSE /\ exit_chan' = exit_with_error(Err("RecvError"), "RecvAccessPoints")
            /\ response' = InternalServerError("RecvAccessPoints")
            /\ UNCHANGED server_chan
    /\ UNCHANGED << network_chan, requests >>
    /\ ServerFrame

\* get_param: Err(IronError::new(StringError(..), InternalServerError)) for a
\* parameter that is absent or ill-typed; the handler returns it at once
BadRequest(name) == HttpResponse("500", name)

\* connect reading ssid only: the passphrase goes into the command as it came
HttpConnectUnchecked ==
    /\ server_pc = "idle"
    /\ requests < MaxRequests
    /\ requests' = requests + 1
    /\ \E ssid \in RequestedSsids \cup {Absent},
          passphrase \in Passphrases \cup {Absent} :
         IF ssid = Absent
         THEN /\ response' = BadRequest("ssid")
              /\ UNCHANGED << network_chan, exit_chan >>
         ELSE /\ network_chan' =
                    network_tx_send(Command("Connect", ssid, passphrase))
              /\ IF network_rx_alive
                 THEN /\ response' = Ok200
                      /\ UNCHANGED exit_chan
                 ELSE /\ exit_chan' = exit_with_error(
                             Err("SendError"), "SendNetworkCommandConnect")
                      /\ response' =
                             InternalServerError("SendNetworkCommandConnect")
    /\ UNCHANGED << server_pc, server_chan >>
    /\ ServerFrame

\* connect: read the parameters ssid and passphrase, then send
\* NetworkCommand::Connect { ssid, passphrase }
HttpConnect ==
    /\ server_pc = "idle"
    /\ requests < MaxRequests
    /\ requests' = requests + 1
    /\ \E ssid \in RequestedSsids \cup {Absent},
          passphrase \in Passphrases \cup {Absent} :
         IF ssid = Absent \/ passphrase = Absent
         THEN /\ response' = BadRequest(IF ssid = Absent THEN "ssid"
                                                         ELSE "passphrase")
              /\ UNCHANGED << network_chan, exit_chan >>
         ELSE /\ network_chan' =
                    network_tx_send(Command("Connect", ssid, passphrase))
              /\ IF network_rx_alive
                 THEN /\ response' = Ok200
                      /\ UNCHANGED exit_chan
                 ELSE /\ exit_chan' = exit_with_error(
                             Err("SendError"), "SendNetworkCommandConnect")
                      /\ response' =
                             InternalServerError("SendNetworkCommandConnect")
    /\ UNCHANGED << server_pc, server_chan >>
    /\ ServerFrame

\* disconnect: send NetworkCommand::Disconnect
HttpDisconnect ==
    /\ server_pc = "idle"
    /\ requests < MaxRequests
    /\ requests' = requests + 1
    /\ \E ssid \in RequestedSsids :
         network_chan' = network_tx_send(Command("Disconnect", ssid, "-"))
    /\ IF network_rx_alive
       THEN /\ response' = Ok200
            /\ UNCHANGED exit_chan
       ELSE /\ exit_chan' = exit_with_error(Err("SendError"),
                                            "SendNetworkCommandConnect")
            /\ response' = InternalServerError("SendNetworkCommandConnect")
    /\ UNCHANGED << server_pc, server_chan >>
    /\ ServerFrame

----------------------------------------------------------------------------
(* The program *)

Init ==
    /\ interface \in Interfaces
    /\ activity_timeout \in ActivityTimeouts
    /\ handler_pc = "unspawned"
    /\ device = "none"
    /\ access_points = << >>
    /\ dnsmasq = "none"
    /\ kill_calls = 0
    /\ activated = FALSE
    /\ result = NoResult
    /\ call = NewCall("none", "-")
    /\ connections \in SUBSET RequestedSsids
    /\ network_chan = << >>
    /\ server_chan = << >>
    /\ exit_chan = << >>
    /\ main_pc = "start"
    /\ main_result = NoResult
    /\ trap_pc = "unspawned"
    /\ timeout_pc = "unspawned"
    /\ server_pc = "unspawned"
    /\ requests = 0
    /\ probe = "-"
    /\ response = NoResponse

Next ==
    \/ MainStart
    \/ MainRecv
    \/ TrapFail
    \/ TrapSignal
    \/ TimeoutFire
    \/ HandlerNew
    \/ HandlerFindDevice
    \/ HandlerInitialScan
    \/ HandlerStartDnsmasq
    \/ HandlerSpawn
    \/ HandlerExit
    \/ ReceiveFail
    \/ Activate
    \/ Timeout
    \/ Exit
    \/ Disconnect
    \/ ConnectBegin
    \/ ConnectAuth
    \/ ConnectWait
    \/ ConnectRescan
    \/ StopKill
    \/ StopSend
    \/ HttpStart
    \/ HttpStartFail
    \/ HttpSsid
    \/ HttpSsidRecv
    \/ HttpConnect
    \/ HttpDisconnect

Spec == Init /\ [][Next]_vars

----------------------------------------------------------------------------
(* The program under fair scheduling *)

\* The process exists: main has not returned from run(); on its return main
\* ends the process (process::exit, or the return from main), and with it
\* every thread
Alive == main_pc # "returned"

\* The steps of the handler thread: process_network_commands
HandlerThread ==
    \/ HandlerNew
    \/ HandlerFindDevice
    \/ HandlerInitialScan
    \/ HandlerStartDnsmasq
    \/ HandlerSpawn
    \/ HandlerExit
    \/ ReceiveFail
    \/ Activate
    \/ Timeout
    \/ Exit
    \/ Disconnect
    \/ ConnectBegin
    \/ ConnectAuth
    \/ ConnectWait
    \/ ConnectRescan
    \/ StopKill
    \/ StopSend

\* The steps the HTTP server takes by itself: the end of its start, the
\* return of a request handler's server_rx.recv()
ServerThread ==
    \/ HttpStart
    \/ HttpStartFail
    \/ HttpSsidRecv

\* Every thread that can run does run while the process exists; a signal and
\* an HTTP request arrive when they arrive
SpecFair ==
    /\ Spec
    /\ WF_vars(MainStart \/ MainRecv)
    /\ WF_vars(Alive /\ HandlerThread)
    /\ WF_vars(Alive /\ ServerThread)
    /\ WF_vars(Alive /\ TimeoutFire)

----------------------------------------------------------------------------
(* The larger command vocabulary: the commands server.rs sends *)

\* NetworkCommand::Scan, ListAP, CheckInternet, Clear, with the number of the
\* HTTP request that sent it
Request(type, n) == [type |-> type, ssid |-> "-", passphrase |-> "-", req |-> n]

\* NetworkCommandResponse::AccessPointResponse, with the number of the
\* request whose command it answers
AccessPointResponse(aps, n) ==
    [type |-> "AccessPointResponse", aps |-> aps, req |-> n]

\* NetworkCommandResponse::InternetCheckResponse
InternetCheckResponse(resp, n) ==
    [type |-> "InternetCheckResponse", resp |-> resp, req |-> n]

\* scan: send NetworkCommand::Scan; the request is answered at once
HttpScan ==
    /\ server_pc = "idle"
    /\ requests < MaxRequests
    /\ requests' = requests + 1
    /\ network_chan' = network_tx_send(Request("Scan", requests'))
    /\ IF network_rx_alive
       THEN /\ response' = Ok200
            /\ UNCHANGED exit_chan
       ELSE /\ exit_chan' = exit_with_error(Err("SendError"), "ScanAccessPoints")
            /\ response' = InternalServerError("ScanAccessPoints")
    /\ UNCHANGED << server_pc, server_chan >>
    /\ ServerFrame

\* ssid: send NetworkCommand::ListAP, then await the response
HttpListAP ==
    /\ server_pc = "idle"
    /\ requests < MaxRequests
    /\ requests' = requests + 1
    /\ network_chan' = network_tx_send(Request("ListAP", requests'))
    /\ IF network_rx_alive
       THEN /\ server_pc' = "awaiting"
            /\ UNCHANGED << exit_chan, response >>
       ELSE /\ exit_chan' = exit_with_error(Err("SendError"),
                                            "SendNetworkCommandListAP")
            /\ response' = InternalServerError("SendNetworkCommandListAP")
            /\ UNCHANGED server_pc
    /\ UNCHANGED server_chan
    /\ ServerFrame

\* check_internet_connection: send NetworkCommand::CheckInternet, then await
\* the response
HttpCheckInternet ==
    /\ server_pc = "idle"
    /\ requests < MaxRequests
    /\ requests' = requests + 1
    /\ network_chan' = network_tx_send(Request("CheckInternet", requests'))
    /\ IF network_rx_alive
       THEN /\ server_pc' = "awaiting_check"
            /\ UNCHANGED << exit_chan, response >>
       ELSE /\ exit_chan' = exit_with_error(Err("SendError"),
                                            "PingUnsuccessful")
            /\ response' = InternalServerError("PingUnsuccessful")
            /\ UNCHANGED server_pc
    /\ UNCHANGED server_chan
    /\ ServerFrame

\* check_internet_connection: the boolean of an InternetCheckResponse, false
\* for any other response variant
ping_result(r) == r.type = "InternetCheckResponse" /\ r.resp

\* Ok(Response::with(status::ServiceUnavailable))
ServiceUnavailable == HttpResponse("503", "-")

\* check_internet_connection: request_state.server_rx.recv()
HttpCheckInternetRecv ==
    /\ server_pc = "awaiting_check"
    /\ server_chan # << >> \/ ~server_tx_alive
    /\ server_pc' = "idle"
    /\ IF server_chan # << >>
       THEN /\ server_chan' = Tail(server_chan)
            /\ response' = IF ping_result(Head(server_chan))
                           THEN Ok200
                           ELSE ServiceUnavailable
            /\ UNCHANGED exit_chan
       ELSE /\ exit_chan' = exit_with_error(Err("RecvError"),
                                            "RecvAccessPointSSIDs")
            /\ response' = InternalServerError("RecvAccessPointSSIDs")
            /\ UNCHANGED server_chan
    /\ UNCHANGED << network_chan, requests >>
    /\ ServerFrame

\* clear_connections: send NetworkCommand::Clear
HttpClear ==
    /\ server_pc = "idle"
    /\ requests < MaxRequests
    /\ requests' = requests + 1
    /\ network_chan' = network_tx_send(Request("Clear", requests'))
    /\ IF network_rx_alive
       THEN /\ response' = Ok200
            /\ UNCHANGED exit_chan
       ELSE /\ exit_chan' = exit_with_error(Err("SendError"), "SendNetworkCommandClear")
            /\ response' = InternalServerError("SendNetworkCommandClear")
    /\ UNCHANGED << server_pc, server_chan >>
    /\ ServerFrame

\* run_loop on Scan or ListAP: re-run the discovery, replace the cache, emit
\* the list on the response channel
ScanOrListAP ==
    /\ handler_pc = "recv"
    /\ network_chan # << >>
    /\ Head(network_chan).type \in { "Scan", "ListAP" }
    /\ network_chan' = Tail(network_chan)
    /\ \E script \in ScanScripts :
         LET g == get_access_points(script)
             c == [NewCall(Head(network_chan).type, "-") EXCEPT !.scans = 1]
         IN
         IF ~g.r.ok
         THEN /\ call' = [c EXCEPT !.ret = g.r]
              /\ result' = g.r
              /\ handler_pc' = "stop_kill"
              /\ UNCHANGED << access_points, server_chan >>
         ELSE /\ access_points' = g.r.value
              /\ IF server_rx_alive
                 THEN /\ server_chan' = Append(server_chan,
                            AccessPointResponse(g.r.value, Head(network_chan).req))
                      /\ call' = [c EXCEPT !.cache_from = 1, !.ret = Ok("()")]
                      /\ UNCHANGED << handler_pc, result >>
                 ELSE /\ result' = Err("SendError")
                      /\ call' = [c EXCEPT !.cache_from = 1, !.ret = result']
                      /\ handler_pc' = "stop_kill"
                      /\ UNCHANGED server_chan
    /\ UNCHANGED << activated, connections >>
    /\ HandlerFrame

\* run_loop on CheckInternet: run the connectivity probe, emit its outcome
CheckInternet ==
    /\ handler_pc = "recv"
    /\ network_chan # << >>
    /\ Head(network_chan).type = "CheckInternet"
    /\ network_chan' = Tail(network_chan)
    /\ \E resp \in BOOLEAN :
         IF server_rx_alive
         THEN /\ server_chan' = Append(server_chan,
                    InternetCheckResponse(resp, Head(network_chan).req))
              /\ call' = [NewCall("CheckInternet", "-") EXCEPT !.ret = Ok("()")]
              /\ UNCHANGED << handler_pc, result >>
         ELSE /\ result' = Err("SendError")
              /\ call' = [NewCall("CheckInternet", "-") EXCEPT !.ret = result']
              /\ handler_pc' = "stop_kill"
              /\ UNCHANGED server_chan
    /\ UNCHANGED << access_points, activated, connections >>
    /\ HandlerFrame

\* run_loop on Clear: delete the portal-mode profiles; nothing is emitted
Clear ==
    /\ handler_pc = "recv"
    /\ network_chan # << >>
    /\ Head(network_chan).type = "Clear"
    /\ network_chan' = Tail(network_chan)
    /\ call' = [NewCall("Clear", "-") EXCEPT !.ret = Ok("()")]
    /\ UNCHANGED << handler_pc, result, access_points, activated, connections,
                    server_chan >>
    /\ HandlerFrame

\* The program with the HTTP layer of server.rs: the routes send the larger
\* vocabulary; no route sends Activate
NextSuperset ==
    \/ MainStart
    \/ MainRecv
    \/ TrapFail
    \/ TrapSignal
    \/ TimeoutFire
    \/ HandlerNew
    \/ HandlerFindDevice
    \/ HandlerInitialScan
    \/ HandlerStartDnsmasq
    \/ HandlerSpawn
    \/ HandlerExit
    \/ ReceiveFail
    \/ ScanOrListAP
    \/ CheckInternet
    \/ Clear
    \/ Timeout
    \/ Exit
    \/ Disconnect
    \/ ConnectBegin
    \/ ConnectAuth
    \/ ConnectWait
    \/ ConnectRescan
    \/ StopKill
    \/ StopSend
    \/ HttpStart
    \/ HttpStartFail
    \/ HttpScan
    \/ HttpListAP
    \/ HttpSsidRecv
    \/ HttpCheckInternet
    \/ HttpCheckInternetRecv
    \/ HttpConnect
    \/ HttpDisconnect
    \/ HttpClear

SpecSuperset == Init /\ [][NextSuperset]_vars

----------------------------------------------------------------------------
(* The functions on their own *)

\* k answers of the device with no decodable SSID, alternately an empty list
\* and a list of undecodable SSIDs only
EmptyScans(k) == [i \in 1..k |-> IF i % 2 = 1 THEN Ok(<< >>) ELSE Ok(<< apRaw >>)]

\* Arguments of get_access_points: the device's answers, query by query
ScanProbes ==
    { EmptyScans(k) \o << q >> : k \in 0..MaxEmptyScans, q \in QueryResults }

\* k polls that report neither Full nor Limited
Offline(k) ==
    [i \in 1..k |-> IF i % 3 = 1 THEN Ok("None")
                    ELSE IF i % 3 = 2 THEN Ok("Portal") ELSE Ok("Unknown")]

Timeouts == 0..MaxTimeout \cup { connectivity_timeout }

\* Arguments of wait_for_connectivity: the service's answers, poll by poll,
\* and the timeout
ConnectivityProbes ==
    { [script |-> Offline(k) \o << c >>, timeout |-> t] :
        k \in 0..(connectivity_timeout + 1),
        c \in { Ok("Full"), Ok("Limited"), Ok("None"), Err("NetworkManager") },
        t \in Timeouts }

DevicePool ==
    { [interface |-> "eth0", device_type |-> "Ethernet"],
      [interface |-> "wlan0", device_type |-> "WiFi"],
      [interface |-> "wlan1", device_type |-> "WiFi"],
      [interface |-> "br0", device_type |-> "Bridge"] }

\* Enumerations of at most MaxDevices devices, no device twice
DeviceLists ==
    { d \in UNION { [1..n -> DevicePool] : n \in 0..MaxDevices } :
        \A i, j \in DOMAIN d : i # j => d[i] # d[j] }

\* Arguments of find_device: the manager (its queries answer or fail) and
\* config.interface
DeviceProbes ==
    { [manager |-> [up |-> u, devices |-> d], iface |-> i] :
        u \in BOOLEAN, d \in DeviceLists, i \in Interfaces \cup { "br0" } }

\* Errors as they arrive at main: a kind, alone or chained over a cause
Errors ==
    { Err(k) : k \in DeclaredKinds \cup ForeignKinds }
    \cup { chain_err(Err("NetworkManager"), k) : k \in DeclaredKinds }

\* Arguments of two calls of exit_code
ExitCodeProbes == { << e1, e2 >> : e1 \in Errors, e2 \in Errors }

\* A function about to be applied
Probe(fn, arg) == [fn |-> fn, arg |-> arg, done |-> FALSE, out |-> "-"]

\* The program is not started while a function is applied on its own
ProgramFrame ==
    UNCHANGED << interface, activity_timeout, handler_pc, device,
                 access_points, dnsmasq, kill_calls, activated, result, call,
                 connections, network_chan, server_chan, exit_chan, main_pc,
                 main_result, trap_pc, timeout_pc, server_pc, requests,
                 response >>

InitPure ==
    /\ interface = "none"
    /\ activity_timeout = 0
    /\ handler_pc = "unspawned"
    /\ device = "none"
    /\ access_points = << >>
    /\ dnsmasq = "none"
    /\ kill_calls = 0
    /\ activated = FALSE
    /\ result = NoResult
    /\ call = NewCall("none", "-")
    /\ connections = {}
    /\ network_chan = << >>
    /\ server_chan = << >>
    /\ exit_chan = << >>
    /\ main_pc = "start"
    /\ main_result = NoResult
    /\ trap_pc = "unspawned"
    /\ timeout_pc = "unspawned"
    /\ server_pc = "unspawned"
    /\ requests = 0
    /\ response = NoResponse
    /\ \/ \E a \in ScanProbes : probe = Probe("get_access_points", a)
       \/ \E a \in ConnectivityProbes : probe = Probe("wait_for_connectivity", a)
       \/ \E a \in DeviceProbes : probe = Probe("find_device", a)
       \/ \E a \in ExitCodeProbes : probe = Probe("exit_code", a)

\* get_access_points(device)
ApplyGetAccessPoints ==
    /\ probe.fn = "get_access_points" /\ ~probe.done
    /\ probe' = [probe EXCEPT !.done = TRUE, !.out = get_access_points(probe.arg)]
    /\ ProgramFrame

\* wait_for_connectivity(manager, timeout)
ApplyWaitForConnectivity ==
    /\ probe.fn = "wait_for_connectivity" /\ ~probe.done
    /\ probe' = [probe EXCEPT
                   !.done = TRUE,
                   !.out = wait_for_connectivity(probe.arg.script,
                                                 probe.arg.timeout)]
    /\ ProgramFrame

\* find_device(manager, interface)
ApplyFindDevice ==
    /\ probe.fn = "find_device" /\ ~probe.done
    /\ probe' = [probe EXCEPT
                   !.done = TRUE,
                   !.out = find_device(probe.arg.manager, probe.arg.iface)]
    /\ ProgramFrame

\* exit_code(&e), for two errors
ApplyExitCode ==
    /\ probe.fn = "exit_code" /\ ~probe.done
    /\ probe' = [probe EXCEPT
                   !.done = TRUE,
                   !.out = << exit_code(probe.arg[1]), exit_code(probe.arg[2]) >>]
    /\ ProgramFrame

NextPure ==
    \/ ApplyGetAccessPoints
    \/ ApplyWaitForConnectivity
    \/ ApplyFindDevice
    \/ ApplyExitCode

SpecPure == InitPure /\ [][NextPure]_vars

----------------------------------------------------------------------------
(* Vocabulary of the properties *)

\* The handler is in run_loop
Running ==
    handler_pc \in { "recv", "connect_auth", "connect_wait", "connect_rescan" }

\* The handler has left run_loop through run(): stop is running or has run
Stopped ==
    \/ handler_pc \in { "stop_kill", "stop_send" }
    \/ handler_pc = "done" /\ dnsmasq # "none"

\* The variant of the command this step dequeues for processing, "-" if the
\* step dequeues none
Processed ==
    IF handler_pc = "recv" /\ network_chan # << >>
       /\ network_chan' = Tail(network_chan)
    THEN Head(network_chan).type ELSE "-"

\* The handler's posts on the exit channel
HandlerPosts == { i \in DOMAIN exit_chan : exit_chan[i].from = "handler" }

\* This step ends a connect with a value that is not an error
ConnectReturnsValue ==
    /\ Running
    /\ call'.cmd = "Connect"
    /\ call'.ret # NoResult
    /\ call'.ret.ok
    /\ call' # call

----------------------------------------------------------------------------
(* C1 *)

\* How a step may take the handler out of run_loop
LeaveCause ==
    \/ Processed = "Exit" /\ result' = Ok("()")
    \/ Processed = "Timeout" /\ ~activated /\ result' = Ok("()")
    \/ /\ handler_pc = "recv" /\ network_chan = << >>
       /\ kind_of(result') = "RecvNetworkCommand"
    \/ Processed = "Activate" /\ kind_of(result') = "SendAccessPointSSIDs"
    \/ /\ Processed = "Connect" \/ handler_pc = "connect_rescan"
       /\ kind_of(result') = "NoAccessPoints"
    \/ Processed = "Disconnect" /\ kind_of(result') = "NetworkManager"

\* C1: run_loop is left only by processing Exit, by processing Timeout while
\* activated is false, or by the error of a sub-operation (command receive,
\* the response send of Activate, an access-point query, device disconnect);
\* a Connect that ends with a value (vanished access point, failed
\* authentication, connection not activated, no connectivity) leaves the
\* handler in run_loop, and a handler in run_loop has posted nothing to the
\* exit channel.
C1_LoopLeftOnlyByExitTimeoutOrError ==
    /\ [](Running => HandlerPosts = {})
    /\ [][(Running /\ ~Running') => LeaveCause]_vars
    /\ [][ConnectReturnsValue =>
            /\ handler_pc' = "recv"
            /\ UNCHANGED << exit_chan, result, kill_calls >>]_vars

\* A connect whose authentication failed has returned false and the handler
\* is back at the top of run_loop
C1_Witness ==
    /\ handler_pc = "recv"
    /\ call.cmd = "Connect"
    /\ call.auth_calls = 1
    /\ call.state = "-"
    /\ call.ret = Ok("false")
    /\ HandlerPosts = {}

----------------------------------------------------------------------------
(* C2 *)

\* C2: processing Exit ends the loop whatever activated is, processing
\* Timeout while activated is false ends it, and in both cases the result
\* handed to stop and posted is Ok(()); a loop ended by a failed
\* sub-operation hands stop, and posts, that operation's error.
C2_PostedResult ==
    /\ [][Processed = "Exit" =>
            handler_pc' = "stop_kill" /\ result' = Ok("()")]_vars
    /\ [][(Processed = "Timeout" /\ ~activated) =>
            handler_pc' = "stop_kill" /\ result' = Ok("()")]_vars
    /\ [](Stopped =>
            IF call.cmd \in { "Exit", "Timeout" }
            THEN result = Ok("()")
            ELSE /\ ~result.ok
                 /\ result = call.ret
                 /\ result.chain[Len(result.chain)]
                      \in { "RecvError", "SendError", "NetworkManager" })
    /\ []((handler_pc = "done" /\ dnsmasq # "none") =>
            /\ Cardinality(HandlerPosts) = 1
            /\ \A i \in HandlerPosts : exit_chan[i].result = result)

\* Exit was processed while activated was true and Ok(()) was posted
C2_Witness ==
    /\ handler_pc = "done"
    /\ call.cmd = "Exit"
    /\ activated
    /\ \E i \in HandlerPosts : exit_chan[i].result = Ok("()")

----------------------------------------------------------------------------
(* C3 *)

\* C3: processing Timeout while activated is true changes nothing but the
\* command queue: the handler stays in run_loop, activated stays true, the
\* cache, the helper process, the response channel and the exit channel are
\* untouched; so a loop ended by Timeout was never activated.
C3_TimeoutIgnoredWhenActivated ==
    /\ [][(Processed = "Timeout" /\ activated) =>
            /\ handler_pc' = "recv"
            /\ activated'
            /\ UNCHANGED << access_points, dnsmasq, kill_calls, server_chan,
                            exit_chan, result, connections >>]_vars
    /\ []((~Running /\ call.cmd = "Timeout") => ~activated)

\* A Timeout has been processed after an Activate and the handler runs on
C3_Witness ==
    /\ handler_pc = "recv"
    /\ call.cmd = "Timeout"
    /\ activated
    /\ kill_calls = 0

----------------------------------------------------------------------------
(* C4 *)

\* C4: activated is false when the handler enters run_loop, becomes true
\* only in a step that processes Activate, and is never reset.
C4_ActivatedMonotonic ==
    /\ [][(handler_pc = "spawn" /\ handler_pc' = "recv") => ~activated']_vars
    /\ [][(~activated /\ activated') => Processed = "Activate"]_vars
    /\ [][activated => activated']_vars

\* The loop ended on an error after it had been activated
C4_Witness ==
    /\ activated
    /\ handler_pc = "done"
    /\ call.cmd \in { "Connect", "Disconnect" }
    /\ ~result.ok

----------------------------------------------------------------------------
(* C5 *)

\* C5: kill is not called while the handler is constructing or in run_loop;
\* every way out of run_loop leads to stop, which calls kill once, goes on
\* whether kill succeeded or not, and posts the result only after it.
C5_KillOnceBeforePost ==
    /\ []((Running \/ handler_pc = "stop_kill") => kill_calls = 0)
    /\ [](Stopped /\ handler_pc # "stop_kill" => kill_calls = 1)
    /\ []((HandlerPosts # {} /\ dnsmasq # "none") => kill_calls = 1)
    /\ [][(Running /\ ~Running') => handler_pc' = "stop_kill"]_vars
    /\ [][(handler_pc = "stop_kill" /\ handler_pc' # "stop_kill") =>
            /\ handler_pc' = "stop_send"
            /\ kill_calls' = kill_calls + 1
            /\ UNCHANGED << result, exit_chan >>]_vars
    /\ [][(handler_pc = "stop_send" /\ handler_pc' # "stop_send") =>
            /\ handler_pc' = "done"
            /\ UNCHANGED kill_calls
            /\ exit_chan' = Append(exit_chan,
                                   [from |-> "handler", result |-> result])]_vars

\* The loop ended on an error, kill was called once and failed, and the
\* result was posted all the same
C5_Witness ==
    /\ handler_pc = "done"
    /\ kill_calls = 1
    /\ dnsmasq = "running"
    /\ ~result.ok
    /\ HandlerPosts # {}

----------------------------------------------------------------------------
(* C6 *)

\* C6: when the entry thread receives an ExitResult, a helper process that
\* was spawned has had kill called on it.
C6_HelperKilledWhenEntryReturns ==
    [][(main_pc = "blocked" /\ main_pc' = "returned") =>
         (dnsmasq = "none" \/ kill_calls >= 1)]_vars

----------------------------------------------------------------------------
(* C7 *)

\* C7: whoever posts to the exit channel and in whatever order, the entry
\* thread can return as soon as one ExitResult is posted, returns the first
\* one posted, receives only once, and what it returned is not changed by
\* any later post.
C7_FirstResultWins ==
    /\ []((main_pc = "blocked" /\ exit_chan # << >>) => ENABLED MainRecv)
    /\ []((main_pc = "returned" /\ handler_pc # "unspawned") =>
            /\ exit_chan # << >>
            /\ main_result = exit_chan[1].result)
    /\ [][(main_pc = "blocked" /\ main_pc' = "returned") =>
            UNCHANGED exit_chan]_vars
    /\ [][main_pc = "returned" => UNCHANGED << main_pc, main_result >>]_vars

\* The trap thread posted its error first and the handler its Ok(()) after
\* it: the entry thread returned the error
C7_Witness ==
    /\ main_pc = "returned"
    /\ Len(exit_chan) >= 2
    /\ exit_chan[1].from = "trap"
    /\ \E i \in HandlerPosts : exit_chan[i].result = Ok("()")
    /\ main_result = Err("TrapExitSignals")

----------------------------------------------------------------------------
(* C8 *)

\* C8 as claimed: whenever connect has returned a value, a second
\* get_access_points was made and the cache holds its result.
C8_CacheRefreshedOnEveryBranch ==
    (call.cmd = "Connect" /\ call.ret # NoResult /\ call.ret.ok) =>
        (call.scans = 2 /\ call.cache_from = 2)

\* C8 (amended): connect makes the second get_access_points on every branch
\* but the activated one.  After a vanished access point, a failed
\* authentication or a state that is not Activated, the scan is made; if it
\* succeeds the cache is replaced by its result and connect returns false,
\* if it fails the cache is left and connect returns the error.  When the
\* state is Activated connect returns true with no further scan: the cache
\* is the one of the refresh made before the attempt.
C8_CacheRefreshedUnlessActivated ==
    /\ []((call.cmd = "Connect" /\ call.ret = Ok("false")) =>
            (call.scans = 2 /\ call.cache_from = 2))
    /\ []((call.cmd = "Connect" /\ call.ret = Ok("true")) =>
            (call.scans = 1 /\ call.cache_from = 1 /\ call.state = "Activated"))
    /\ [][(handler_pc = "connect_auth" /\ handler_pc' # "connect_auth") =>
            /\ call'.auth_calls = 1
            /\ UNCHANGED access_points
            /\ IF call'.state = "Activated"
               THEN handler_pc' = "connect_wait"
               ELSE handler_pc' = "connect_rescan"]_vars
    /\ [][(handler_pc = "connect_wait" /\ handler_pc' # "connect_wait") =>
            UNCHANGED access_points /\ call'.scans = call.scans]_vars
    /\ [][(handler_pc = "connect_rescan" /\ handler_pc' # "connect_rescan") =>
            /\ call'.scans = 2
            /\ IF call'.ret.ok
               THEN call'.cache_from = 2 /\ handler_pc' = "recv"
               ELSE /\ UNCHANGED access_points
                    /\ handler_pc' = "stop_kill"
                    /\ kind_of(call'.ret) = "NoAccessPoints"]_vars

\* Authentication failed, the cache holds the scan made after it and
\* connect returned false
C8_Witness ==
    /\ call.cmd = "Connect"
    /\ call.auth_calls = 1
    /\ call.state = "-"
    /\ call.cache_from = 2
    /\ call.ret = Ok("false")

----------------------------------------------------------------------------
(* C9 *)

\* The requested SSID is in no entry of the access points
Vanished(aps, ssid) == \A i \in DOMAIN aps : aps[i].ssid # ssid

\* C9 as claimed: a connect whose first refresh does not show the SSID
\* returns false, not an error, and never calls wifi_device.connect.
C9_VanishedReturnsFalse ==
    (call.cmd = "Connect" /\ call.visible = "no" /\ call.ret # NoResult) =>
        (call.ret = Ok("false") /\ call.auth_calls = 0)

\* C9 (amended): a connect whose first refresh does not show the SSID never
\* calls wifi_device.connect, and returns false unless the device query of
\* the final refresh fails, in which case it returns that error
\* (NoAccessPoints).
C9_VanishedSkipsAuthentication ==
    /\ [][(Processed = "Connect" /\ call'.ret = NoResult) =>
            /\ call'.visible = IF Vanished(access_points', call'.ssid)
                               THEN "no" ELSE "yes"
            /\ handler_pc' = IF Vanished(access_points', call'.ssid)
                             THEN "connect_rescan" ELSE "connect_auth"]_vars
    /\ []((call.cmd = "Connect" /\ call.visible = "no") =>
            /\ call.auth_calls = 0
            /\ call.state = "-"
            /\ \/ call.ret = NoResult /\ handler_pc = "connect_rescan"
               \/ call.ret = Ok("false")
               \/ kind_of(call.ret) = "NoAccessPoints" /\ call.scans = 2)

\* The first refresh showed other access points only; connect returned
\* false without a call of wifi_device.connect
C9_Witness ==
    /\ call.cmd = "Connect"
    /\ call.visible = "no"
    /\ call.auth_calls = 0
    /\ call.ret = Ok("false")
    /\ handler_pc = "recv"

----------------------------------------------------------------------------
(* C10 *)

\* C10: once wifi_device.connect has returned the state Activated, connect
\* returns true whatever wait_for_connectivity yields (true, false or an
\* error), the handler stays in run_loop, and the connection created is
\* neither deleted nor removed from the stored profiles.
C10_ActivatedReturnsTrue ==
    /\ []((call.cmd = "Connect" /\ call.state = "Activated") =>
            /\ call.visible = "yes"
            /\ ~call.created_deleted
            /\ call.ssid \in connections
            /\ \/ call.ret = NoResult /\ handler_pc = "connect_wait"
               \/ call.ret = Ok("true") /\ handler_pc = "recv")
    /\ [][(handler_pc = "connect_wait" /\ handler_pc' # "connect_wait") =>
            /\ call'.ret = Ok("true")
            /\ call'.wait \in { "true", "false", "err" }
            /\ UNCHANGED << connections, result, exit_chan >>]_vars

\* The connectivity query failed after an activated connection and connect
\* returned true
C10_Witness ==
    /\ call.cmd = "Connect"
    /\ call.state = "Activated"
    /\ call.wait = "err"
    /\ call.ret = Ok("true")
    /\ handler_pc = "recv"

----------------------------------------------------------------------------
(* C11 *)

\* wifi_device.connect returned a connection whose state is not Activated
NotActivated == call.cmd = "Connect" /\ call.state \in { "Activating", "Deactivated" }

\* C11 as claimed: when wifi_device.connect succeeds with a state other than
\* Activated, the created connection is deleted, the connectivity wait is
\* not run, and connect returns false without error.
C11_NotActivatedReturnsFalse ==
    (NotActivated /\ call.ret # NoResult) =>
        (call.created_deleted /\ call.wait = "-" /\ call.ret = Ok("false"))

\* C11 (amended): when wifi_device.connect succeeds with a state other than
\* Activated, connection.delete() is called on the created connection (its
\* failure is logged and leaves the profile stored), the connectivity wait
\* is not run, the handler goes on to the final refresh, and connect returns
\* false unless the device query of that refresh fails, in which case it
\* returns that error (NoAccessPoints).
C11_NotActivatedDeletesConnection ==
    /\ [][(handler_pc = "connect_auth" /\ handler_pc' # "connect_auth"
            /\ call'.state \in { "Activating", "Deactivated" }) =>
            /\ call'.created_deleted
            /\ connections' \in { connections \ { call.ssid },
                                  connections \cup { call.ssid } }
            /\ handler_pc' = "connect_rescan"
            /\ UNCHANGED << result, exit_chan, kill_calls >>]_vars
    /\ [](NotActivated =>
            /\ call.created_deleted
            /\ call.wait = "-"
            /\ call.auth_calls = 1
            /\ \/ call.ret = NoResult /\ handler_pc = "connect_rescan"
               \/ call.ret = Ok("false")
               \/ kind_of(call.ret) = "NoAccessPoints" /\ call.scans = 2)

\* The connection was not activated, its deletion failed (the profile is
\* still stored) and connect returned false all the same
C11_Witness ==
    /\ NotActivated
    /\ call.created_deleted
    /\ call.ssid \in connections
    /\ call.wait = "-"
    /\ call.ret = Ok("false")
    /\ handler_pc = "recv"

----------------------------------------------------------------------------
(* C12 *)

\* This step is a request handler's receive of the queued response
Receives ==
    /\ server_pc \in { "awaiting", "awaiting_check" }
    /\ server_chan # << >>
    /\ server_pc' = "idle"

\* The response variant the route at server_pc matches on
Awaited ==
    IF server_pc = "awaiting" THEN "AccessPointResponse"
    ELSE "InternetCheckResponse"

\* This step is the network handler's emission of a response
Emits == Len(server_chan') = Len(server_chan) + 1

\* C12: over serialized HTTP requests, every value a request handler
\* receives from the response channel is the response emitted for that
\* request's own command and of the variant it matches on; the network
\* handler emits a response only for a command whose request awaits one
\* (ssid, internetAccess); no response is left queued when the HTTP layer
\* is idle and every command has been processed.
C12_ResponsePairedWithRequest ==
    /\ [][Receives =>
            /\ Head(server_chan).req = requests
            /\ Head(server_chan).type = Awaited]_vars
    /\ [][Emits => Head(network_chan).type \in { "ListAP", "CheckInternet" }]_vars
    /\ []((server_pc = "idle" /\ network_chan = << >> /\ handler_pc = "recv")
            => server_chan = << >>)

----------------------------------------------------------------------------
(* C13 *)

\* The entries of a raw list whose SSID decodes, in the raw list's order
Decoded(aps) == SelectSeq(aps, LAMBDA ap : ap.ssid \notin UndecodableSsids)

\* The n-th device query ends the scan: it fails, or its filtered list is
\* not empty
EndsScan(script, n) ==
    \/ ~query(script, n).ok
    \/ Decoded(query(script, n).value) # << >>

\* C13: get_access_points queries the device at most 10 times; it returns
\* the filtered list of the first attempt whose filtered list is not empty;
\* when all 10 attempts give an empty filtered list it returns the empty
\* list, without error, after exactly 10 attempts; it returns an error only
\* when a device query fails.
C13_ScanBoundedByTenAttempts ==
    (probe.fn = "get_access_points" /\ probe.done) =>
        LET script == probe.arg
            out == probe.out
            ends == { n \in 1..10 : EndsScan(script, n) }
            first == CHOOSE n \in ends : \A m \in ends : n <= m
        IN /\ out.attempts \in 1..10
           /\ IF ends = {}
              THEN out.r = Ok(<< >>) /\ out.attempts = 10
              ELSE /\ out.attempts = first
                   /\ IF query(script, first).ok
                      THEN out.r = Ok(Decoded(query(script, first).value))
                      ELSE kind_of(out.r) = "NoAccessPoints"
           /\ ~out.r.ok <=> ~query(script, out.attempts).ok

\* Ten attempts found nothing and the list returned is empty, although an
\* eleventh query would have shown an access point
C13_Witness ==
    /\ probe.fn = "get_access_points" /\ probe.done
    /\ Len(probe.arg) = 11
    /\ probe.arg[11] = Ok(<< apHome >>)
    /\ probe.out.attempts = 10
    /\ probe.out.r = Ok(<< >>)

----------------------------------------------------------------------------
(* C14 *)

\* This step is taken by the handler thread: the thread exists and no other
\* thread moves
HandlerStep ==
    /\ handler_pc \notin { "unspawned", "exit", "done" }
    /\ UNCHANGED << main_pc, main_result, trap_pc, timeout_pc, server_pc,
                    requests >>

\* The handler is between the dequeue of a command and the end of its
\* processing
Executing == handler_pc \in { "connect_auth", "connect_wait", "connect_rescan" }

\* C14: commands are executed one at a time, in the order the handler
\* dequeues them, which for one producer is the order it sent them: a
\* command is taken from the head of the queue only when none is executing,
\* and producers add at the tail; the device, the stored profiles and the
\* helper are touched by steps of the handler thread only, and the entry
\* thread's calls into the service precede the handler thread.
C14_CommandsSerializedByHandler ==
    /\ [][network_chan' # network_chan =>
            \/ /\ network_chan # << >>
               /\ network_chan' = Tail(network_chan)
               /\ handler_pc = "recv"
               /\ HandlerStep
               /\ call'.cmd = Head(network_chan).type
            \/ /\ \E c \in { Command(t, x, y) :
                              t \in { "Activate", "Timeout", "Exit", "Connect",
                                      "Disconnect" },
                              x \in RequestedSsids \cup { "-" },
                              y \in Passphrases \cup { "-" } } :
                     network_chan' = Append(network_chan, c)
               /\ UNCHANGED << handler_pc, call >>]_vars
    /\ [][Executing => UNCHANGED network_chan \/ ~HandlerStep]_vars
    /\ [][(\/ device' # device
           \/ access_points' # access_points
           \/ connections' # connections
           \/ dnsmasq' # dnsmasq
           \/ kill_calls' # kill_calls
           \/ activated' # activated
           \/ call' # call) => HandlerStep]_vars
    /\ [](main_pc = "start" => handler_pc = "unspawned")

\* A connect is executing while a Disconnect and an Exit sent meanwhile wait
\* in the queue in the order they were sent
C14_Witness ==
    /\ call.cmd = "Connect"
    /\ handler_pc = "connect_rescan"
    /\ Len(network_chan) = 2
    /\ network_chan[1].type = "Disconnect"
    /\ network_chan[2].type = "Exit"

----------------------------------------------------------------------------
(* C15 *)

\* The handler is blocked in recv() on an empty command channel of which
\* every sender has been dropped
Orphaned == handler_pc = "recv" /\ network_chan = << >> /\ ~network_tx_alive

\* C15: when the handler blocks on the command channel and every sender has
\* been dropped, the receive fails and the failure is fatal: the loop ends
\* with the kind RecvNetworkCommand, the helper is killed and an Err of that
\* kind is posted to the exit channel; the handler is never left blocked on
\* a channel without producers.
C15_ReceiveFailureIsFatal ==
    /\ [](Orphaned => ENABLED ReceiveFail)
    /\ [][Orphaned =>
            \/ UNCHANGED << handler_pc, result, call, kill_calls >>
            \/ /\ handler_pc' = "stop_kill"
               /\ kind_of(result') = "RecvNetworkCommand"
               /\ call'.cmd = "none"
               /\ UNCHANGED << kill_calls, exit_chan >>]_vars
    /\ []((call.cmd = "none" /\ call.ret # NoResult) =>
            /\ handler_pc \in { "stop_kill", "stop_send", "done" }
            /\ kind_of(result) = "RecvNetworkCommand"
            /\ handler_pc = "stop_kill" => kill_calls = 0 /\ HandlerPosts = {}
            /\ handler_pc = "stop_send" => kill_calls = 1 /\ HandlerPosts = {}
            /\ handler_pc = "done" =>
                  /\ kill_calls = 1
                  /\ Cardinality(HandlerPosts) = 1
                  /\ \A i \in HandlerPosts :
                        kind_of(exit_chan[i].result) = "RecvNetworkCommand")

\* Every sender was dropped while the handler waited; the helper was killed
\* and the error posted
C15_Witness ==
    /\ handler_pc = "done"
    /\ call.cmd = "none"
    /\ ~network_tx_alive
    /\ kill_calls = 1
    /\ dnsmasq = "killed"
    /\ \E i \in HandlerPosts : kind_of(exit_chan[i].result) = "RecvNetworkCommand"

----------------------------------------------------------------------------
(* C16 *)

\* The kinds of the errors run() returns to main in the program above
EntryErrorKinds ==
    { "BlockExitSignals", "NetworkManagerServiceState", "StartNetworkManager",
      "StartActiveNetworkManager", "DeleteAccessPoint", "TrapExitSignals",
      "DeviceByInterface", "NotAWiFiDevice", "NoWiFiDevice", "NoAccessPoints",
      "StartHTTPServer", "NetworkManager", "Io" }

\* C16 as claimed: two errors that can reach the entry point with different
\* kinds get different integers from exit_code, and no kind maps to 0.
C16_ExitCodeUniquePerKind ==
    (probe.fn = "exit_code" /\ probe.done
     /\ kind_of(probe.arg[1]) \in EntryErrorKinds
     /\ kind_of(probe.arg[2]) \in EntryErrorKinds) =>
        /\ kind_of(probe.arg[1]) # kind_of(probe.arg[2]) =>
              probe.out[1] # probe.out[2]
        /\ probe.out[1] # 0 /\ probe.out[2] # 0

\* C16 (amended): exit_code depends on the error's kind only; the kinds
\* declared in the errors block get codes other than 0 and 1, different
\* kinds different codes; every other kind (a foreign link, the linked
\* NetworkManager error, Msg) gets the code 1; no kind maps to 0.
C16_ExitCodeUniquePerDeclaredKind ==
    (probe.fn = "exit_code" /\ probe.done) =>
        LET k1 == kind_of(probe.arg[1])
            k2 == kind_of(probe.arg[2])
        IN /\ \A i \in 1..2 :
                /\ probe.out[i] \in 1..26
                /\ probe.out[i] = 1 <=> kind_of(probe.arg[i]) \notin DeclaredKinds
           /\ k1 = k2 => probe.out[1] = probe.out[2]
           /\ (k1 \in DeclaredKinds /\ k2 \in DeclaredKinds /\ k1 # k2) =>
                 probe.out[1] # probe.out[2]

\* Two declared kinds, one of them chained over a cause, got their own codes
C16_Witness ==
    /\ probe.fn = "exit_code" /\ probe.done
    /\ probe.arg[1] = Err("RecvAccessPointSSIDs")
    /\ probe.arg[2] = chain_err(Err("NetworkManager"), "RecvAccessPoints")
    /\ probe.out = << 4, 24 >>

----------------------------------------------------------------------------
(* C17 *)

\* C17: the access-point list a scan returns is the raw scan result without
\* the entries whose SSID does not decode, the others in their original
\* order, duplicates kept; so neither the cache nor an SSID list emitted on
\* the response channel ever holds an undecodable SSID.
C17_CacheHoldsDecodableSsidsOnly ==
    /\ [][access_points' # access_points =>
            \E raw \in RawScans : access_points' = Decoded(raw)]_vars
    /\ [](\A i \in DOMAIN access_points :
            access_points[i].ssid \notin UndecodableSsids)
    /\ [](\A i \in DOMAIN server_chan :
            \A j \in DOMAIN server_chan[i].ssids :
                server_chan[i].ssids[j] \notin UndecodableSsids)

\* A raw result with an undecodable SSID between two others and a repeated
\* SSID became the cache and was emitted: the undecodable entry is gone, the
\* order and the repetition are kept
C17_Witness ==
    /\ access_points = << apCafe, apHome, apHomeWeak >>
    /\ \E i \in DOMAIN server_chan :
          server_chan[i].ssids = << "cafe", "home", "home" >>

----------------------------------------------------------------------------
(* C18 *)

\* The devices of the manager that carry the interface name
Named(manager, name) ==
    { i \in DOMAIN manager.devices : manager.devices[i].interface = name }

\* The wireless devices of the manager
Wireless(manager) ==
    { i \in DOMAIN manager.devices : manager.devices[i].device_type = "WiFi" }

\* The lookup of an explicit interface name resolves to device i
ResolvesTo(manager, name, i) == manager.up /\ i \in Named(manager, name)

\* find_device with an explicit interface name: NotAWiFiDevice for a
\* non-wireless device, DeviceByInterface for a name that does not resolve,
\* the device itself when it is wireless
ExplicitSelection(manager, name, out) ==
    /\ \A i \in DOMAIN manager.devices :
          ResolvesTo(manager, name, i) =>
              IF manager.devices[i].device_type = "WiFi"
              THEN out = Ok(manager.devices[i])
              ELSE kind_of(out) = "NotAWiFiDevice"
    /\ (~\E i \in DOMAIN manager.devices : ResolvesTo(manager, name, i)) =>
          kind_of(out) = "DeviceByInterface"

\* find_device without an interface name: the first wireless device of the
\* enumeration, NoWiFiDevice when there is none
FirstWireless(manager, out) ==
    IF Wireless(manager) = {}
    THEN kind_of(out) = "NoWiFiDevice"
    ELSE \E i \in Wireless(manager) :
            /\ \A j \in Wireless(manager) : i <= j
            /\ out = Ok(manager.devices[i])

\* C18 as claimed: an explicit name bound to a non-wireless device fails with
\* NotAWiFiDevice, one that cannot be resolved with DeviceByInterface, one
\* bound to a wireless device returns it; without a name find_device returns
\* the first wireless device in enumeration order and fails with
\* NoWiFiDevice when no device is wireless.
C18_DeviceSelection ==
    (probe.fn = "find_device" /\ probe.done) =>
        IF probe.arg.iface # "none"
        THEN ExplicitSelection(probe.arg.manager, probe.arg.iface, probe.out)
        ELSE FirstWireless(probe.arg.manager, probe.out)

\* C18 (amended): as claimed for an explicit name; without a name
\* find_device returns the first wireless device in enumeration order and
\* fails with NoWiFiDevice when no device is wireless, provided the
\* enumeration of the devices succeeds; when it fails, find_device fails
\* with the enumeration's own error (kind NetworkManager).
C18_DeviceSelectionWhenEnumerated ==
    (probe.fn = "find_device" /\ probe.done) =>
        IF probe.arg.iface # "none"
        THEN ExplicitSelection(probe.arg.manager, probe.arg.iface, probe.out)
        ELSE IF probe.arg.manager.up
             THEN FirstWireless(probe.arg.manager, probe.out)
             ELSE probe.out = Err("NetworkManager")

\* Without a name, the wireless device enumerated first was returned: it is
\* neither the first device nor the last wireless one
C18_Witness ==
    /\ probe.fn = "find_device" /\ probe.done
    /\ probe.arg.iface = "none"
    /\ probe.arg.manager.up
    /\ Len(probe.arg.manager.devices) = 3
    /\ probe.arg.manager.devices[1].device_type = "Ethernet"
    /\ probe.arg.manager.devices[2].interface = "wlan1"
    /\ probe.arg.manager.devices[3].interface = "wlan0"
    /\ probe.out = Ok(probe.arg.manager.devices[2])

----------------------------------------------------------------------------
(* C19 *)

\* C19 as claimed: for every sequence of connectivity-query outcomes, a
\* failed query included, wait_for_connectivity returns true or false and
\* never an error.
C19_WaitNeverReturnsError ==
    (call.cmd = "Connect" /\ call.wait # "-") => call.wait \in { "true", "false" }

\* C19 (amended): wait_for_connectivity returns true, false, or the error of
\* a failed connectivity query; whichever it returns, connect logs it and
\* returns true, nothing is posted to the exit channel, the helper is not
\* killed and the handler goes back to receiving commands: the wait never
\* aborts its caller.
C19_WaitNeverAbortsCaller ==
    /\ [][(handler_pc = "connect_wait" /\ handler_pc' # "connect_wait") =>
            /\ call'.wait \in { "true", "false", "err" }
            /\ handler_pc' = "recv"
            /\ UNCHANGED << result, exit_chan, kill_calls, dnsmasq,
                            access_points, activated >>]_vars
    /\ []((call.cmd = "Connect" /\ call.wait # "-") =>
            /\ call.ret = Ok("true")
            /\ handler_pc = "recv"
            /\ result = NoResult)

\* The connectivity query failed inside wait_for_connectivity; the handler
\* is receiving commands again, nothing posted and the helper running
C19_Witness ==
    /\ call.cmd = "Connect"
    /\ call.wait = "err"
    /\ handler_pc = "recv"
    /\ result = NoResult
    /\ HandlerPosts = {}
    /\ kill_calls = 0
    /\ dnsmasq = "running"

----------------------------------------------------------------------------
(* C20 *)

\* What the n-th poll of the connectivity reports
Polled(script, n) == IF n <= Len(script) THEN script[n] ELSE Ok("None")

\* The n-th poll reports Full or Limited
Established(script, n) ==
    Polled(script, n).ok /\ Polled(script, n).value \in { "Full", "Limited" }

\* C20 as claimed: wait_for_connectivity(T) returns true at the first poll
\* whose status is Full or Limited; if none of its polls reports Full or
\* Limited it returns false after exactly T + 1 polls (T one-second waits);
\* it never polls more than T + 1 times.
C20_WaitReturnsTrueOrFalse ==
    (probe.fn = "wait_for_connectivity" /\ probe.done) =>
        LET script == probe.arg.script
            T == probe.arg.timeout
            out == probe.out
            ends == { n \in 1..(T + 1) : Established(script, n) }
        IN /\ out.polls \in 1..(T + 1)
           /\ IF ends = {}
              THEN out.r = Ok(FALSE) /\ out.polls = T + 1
              ELSE /\ out.r = Ok(TRUE)
                   /\ out.polls \in ends
                   /\ \A n \in ends : out.polls <= n

\* C20 (amended): wait_for_connectivity(T) always terminates within T + 1
\* polls: it stops at the first poll that fails or reports Full or
\* Limited, returning the query's error in the first case and true in the
\* second; if none of its T + 1 polls does either it returns false after
\* exactly T + 1 polls (T one-second waits).
C20_WaitBoundedByTimeout ==
    (probe.fn = "wait_for_connectivity" /\ probe.done) =>
        LET script == probe.arg.script
            T == probe.arg.timeout
            out == probe.out
            ends == { n \in 1..(T + 1) :
                        ~Polled(script, n).ok \/ Established(script, n) }
        IN /\ out.polls \in 1..(T + 1)
           /\ IF ends = {}
              THEN out.r = Ok(FALSE) /\ out.polls = T + 1
              ELSE /\ out.polls \in ends
                   /\ \A n \in ends : out.polls <= n
                   /\ out.r = IF Established(script, out.polls) THEN Ok(TRUE)
                              ELSE Polled(script, out.polls)

\* With the program's timeout of 20 no poll reported Full or Limited: false
\* after 21 polls, a 22nd answer of Full never asked for
C20_Witness ==
    /\ probe.fn = "wait_for_connectivity" /\ probe.done
    /\ probe.arg.timeout = 20
    /\ Len(probe.arg.script) = 22
    /\ probe.arg.script[22] = Ok("Full")
    /\ probe.out.polls = 21
    /\ probe.out.r = Ok(FALSE)

----------------------------------------------------------------------------
(* C21 *)

\* The SSIDs of a list of access points, in the list's order
SsidsOf(aps) == [i \in DOMAIN aps |-> aps[i].ssid]

----------------------------------------------------------------------------
(* C22 *)

\* The exit coordinator's posts on the exit channel
TrapPosts == { i \in DOMAIN exit_chan : exit_chan[i].from = "trap" }

\* This step puts an Exit command at the end of the command queue
ExitQueued ==
    network_chan' = Append(network_chan, Command("Exit", "-", "-"))

\* This step is the exit coordinator's: it leaves trap_exit_signals
TrapStep == trap_pc = "trapping" /\ trap_pc' # "trapping"

\* C22: after a trapped signal the exit coordinator sends Exit once (the
\* command is queued when the handler's receiver exists, lost otherwise)
\* and posts nothing to the exit channel; when the trapping fails it posts
\* one Err and sends no Exit; it does one of the two, once, and no other
\* thread sends Exit.
C22_ExitOrErrNeverBoth ==
    /\ [][TrapStep =>
            /\ trap_pc' = "done"
            /\ \/ /\ UNCHANGED exit_chan
                  /\ IF network_rx_alive THEN ExitQueued
                     ELSE UNCHANGED network_chan
               \/ /\ UNCHANGED network_chan
                  /\ exit_chan' = Append(exit_chan,
                        [from |-> "trap", result |-> Err("TrapExitSignals")])]_vars
    /\ [][trap_pc = "done" => trap_pc' = "done"]_vars
    /\ [][(ExitQueued \/ TrapPosts' # TrapPosts) => TrapStep]_vars
    /\ [](Cardinality(TrapPosts) <= 1)
    /\ [](TrapPosts # {} => trap_pc = "done" /\ call.cmd # "Exit"
                             /\ \A i \in DOMAIN network_chan :
                                   network_chan[i].type # "Exit")

\* The signal was trapped and its Exit processed by the handler; the exit
\* coordinator posted nothing
C22_Witness ==
    /\ trap_pc = "done"
    /\ TrapPosts = {}
    /\ call.cmd = "Exit"
    /\ handler_pc = "done"
    /\ \E i \in HandlerPosts : exit_chan[i].result = Ok("()")

----------------------------------------------------------------------------
(* C23 *)

\* This step puts a Timeout command at the end of the command queue
TimeoutQueued ==
    network_chan' = Append(network_chan, Command("Timeout", "-", "-"))

\* This step is the timeout monitor's: its sleep ends
MonitorStep == timeout_pc = "sleeping" /\ timeout_pc' # "sleeping"

\* C23: with an activity timeout of zero the monitor does not run and no
\* Timeout command is ever sent; otherwise the monitor sends Timeout at
\* most once, when its one sleep ends; a send that fails because the
\* handler's receiver is gone posts nothing to the exit channel and changes
\* nothing of any other thread.
C23_TimeoutSentAtMostOnce ==
    /\ [](activity_timeout = 0 =>
            /\ timeout_pc = "unspawned"
            /\ call.cmd # "Timeout"
            /\ \A i \in DOMAIN network_chan : network_chan[i].type # "Timeout")
    /\ [][TimeoutQueued => MonitorStep]_vars
    /\ [][MonitorStep =>
            /\ timeout_pc' = "done"
            /\ IF network_rx_alive THEN TimeoutQueued ELSE UNCHANGED network_chan
            /\ UNCHANGED << exit_chan, server_chan, handler_pc, result, call,
                            main_pc, main_result, trap_pc, server_pc, requests,
                            dnsmasq, kill_calls, activated, access_points,
                            connections >>]_vars
    /\ [][timeout_pc = "done" => timeout_pc' = "done"]_vars

\* The monitor's Timeout was processed before any Activate and ended the
\* loop with Ok(())
C23_Witness ==
    /\ activity_timeout # 0
    /\ timeout_pc = "done"
    /\ call.cmd = "Timeout"
    /\ ~activated
    /\ handler_pc = "done"
    /\ result = Ok("()")

----------------------------------------------------------------------------
(* C24 *)

\* The HTTP layer's posts on the exit channel
ServerPosts == { i \in DOMAIN exit_chan : exit_chan[i].from = "server" }

\* This step is a request handler up to its send of a command
SendStep == requests' = requests + 1

\* This step is a request handler's return from server_rx.recv()
RecvStep ==
    /\ server_pc \in { "awaiting", "awaiting_check" }
    /\ server_pc' = "idle"

\* This step rejects a request for a parameter: get_param returned the error
Rejected ==
    /\ SendStep
    /\ server_pc' = "idle"
    /\ response'.error \in { "ssid", "passphrase" }

\* This step's send of a command fails: the handler's receiver is gone
SendFails == SendStep /\ ~Rejected /\ ~network_rx_alive

\* This step's receive of a response fails: nothing is queued and the
\* handler's sender is gone
RecvFails == RecvStep /\ server_chan = << >>

\* This step appends one Err to the exit channel, posted by the HTTP layer:
\* an error kind chained over the channel's error; the request is answered
\* with the internal server error of that kind
PostsOneChainedErr ==
    /\ Len(exit_chan') = Len(exit_chan) + 1
    /\ SubSeq(exit_chan', 1, Len(exit_chan)) = exit_chan
    /\ LET posted == exit_chan'[Len(exit_chan')]
       IN  /\ posted.from = "server"
           /\ ~posted.result.ok
           /\ Len(posted.result.chain) = 2
           /\ posted.result.chain[2] = IF SendStep THEN "SendError"
                                                   ELSE "RecvError"
           /\ posted.result.chain[1] \in DeclaredKinds
           /\ response' = InternalServerError(posted.result.chain[1])

\* C24: in the HTTP layer, a request whose send of a command or whose
\* receive of a response fails posts exactly one chained Err to the exit
\* channel and is answered with an error; a request handler posts nothing
\* otherwise; a connect rejected for a missing or ill-typed ssid or
\* passphrase is answered with an error, sends no command and posts nothing.
C24_FailedRequestPostsOneErr ==
    /\ [][(SendFails \/ RecvFails) => PostsOneChainedErr]_vars
    /\ [][((SendStep \/ RecvStep) /\ ~SendFails /\ ~RecvFails) =>
            UNCHANGED exit_chan]_vars
    /\ [][Rejected =>
            /\ response'.status = "500"
            /\ UNCHANGED << network_chan, server_chan, exit_chan, server_pc,
                            handler_pc, call >>]_vars
    /\ [](\A i \in DOMAIN network_chan :
             network_chan[i].type = "Connect" =>
                /\ network_chan[i].ssid # Absent
                /\ network_chan[i].passphrase # Absent)
    /\ [][(SendStep /\ ~Rejected /\ network_rx_alive) =>
            /\ Len(network_chan') = Len(network_chan) + 1
            /\ server_pc' = "idle" => response' = Ok200]_vars

\* A request's send failed and posted the one Err of the HTTP layer; a
\* connect without passphrase was then rejected and posted nothing
C24_Witness ==
    /\ requests = 2
    /\ response = BadRequest("passphrase")
    /\ Cardinality(ServerPosts) = 1
    /\ \E i \in ServerPosts :
          /\ Len(exit_chan[i].result.chain) = 2
          /\ exit_chan[i].result.chain[2] = "SendError"

----------------------------------------------------------------------------
(* C25 *)

\* The handler thread has finished: process_network_commands returned
Finished == handler_pc = "done"

\* new() returned Err: the handler was never constructed
ConstructionFailed == Finished /\ dnsmasq = "none"

\* The kinds of the errors new() can return: of find_device, of the initial
\* get_access_points, of start_dnsmasq
ConstructionErrorKinds ==
    { "NetworkManager", "DeviceByInterface", "NotAWiFiDevice", "NoWiFiDevice",
      "NoAccessPoints", "Io" }

\* C25: the handler thread posts exactly one ExitResult by the time it has
\* finished and none before: when the construction of the handler fails the
\* post is that Err, the command loop never ran and kill was never invoked;
\* otherwise the post is the one result of the loop, made by stop after its
\* one kill.
C25_HandlerPostsExactlyOnce ==
    /\ [](Finished => Cardinality(HandlerPosts) = 1)
    /\ [](~Finished => HandlerPosts = {})
    /\ [][HandlerPosts' # HandlerPosts =>
            /\ handler_pc \in { "exit", "stop_send" }
            /\ handler_pc' = "done"
            /\ exit_chan' = Append(exit_chan,
                                   [from |-> "handler", result |-> result])
            /\ UNCHANGED << result, kill_calls, dnsmasq >>]_vars
    /\ [][Finished => UNCHANGED << handler_pc, result, kill_calls, dnsmasq,
                                   call >>]_vars
    /\ [](ConstructionFailed =>
            /\ ~result.ok
            /\ result.chain # << >>
            /\ result.chain[1] \in ConstructionErrorKinds
            /\ kill_calls = 0
            /\ call = NewCall("none", "-")
            /\ activated = FALSE
            /\ server_pc = "unspawned" /\ timeout_pc = "unspawned")
    /\ [](Finished /\ ~ConstructionFailed => kill_calls = 1)
    /\ [](handler_pc \in { "exit", "find_device", "get_access_points",
                           "start_dnsmasq", "spawn" } => kill_calls = 0)

\* The helper could not be spawned: the handler thread posted that Err and
\* finished without a command loop and without a kill
C25_Witness ==
    /\ ConstructionFailed
    /\ kill_calls = 0
    /\ \E i \in HandlerPosts : exit_chan[i].result = Err("Io")
    /\ Cardinality(HandlerPosts) = 1

----------------------------------------------------------------------------
(* C26 *)

\* The exit coordinator's Exit is queued on the command channel of a
\* constructed handler
ExitSent ==
    /\ Running
    /\ \E i \in DOMAIN network_chan : network_chan[i].type = "Exit"

\* An HTTP request waits for the handler's response
RequestWaits == server_pc = "awaiting"

\* C26: under fair scheduling, once Exit is queued for a constructed handler
\* the entry thread eventually receives an ExitResult, the handler thread
\* eventually ends (by itself or with the process), the helper's kill is
\* eventually invoked, and a waiting HTTP request eventually returns or ends
\* with the process.
C26_ExitLeadsToShutdown ==
    /\ ExitSent ~> (main_pc = "returned")
    /\ ExitSent ~> (Finished \/ ~Alive)
    /\ ExitSent ~> (kill_calls = 1)
    /\ RequestWaits ~> (server_pc = "idle" \/ ~Alive)

====
